---- MODULE Spec2Model ----
(***************************************************************************)
(* A model of the workflow-automation subsystem (workflow_agents):         *)
(*   - middleware/rate_limiter.py : the Redis fixed-window rate limiter    *)
(*   - tools/flow_graph_tools.py  : flow / node / edge CRUD                *)
(*   - tools/validation_tools.py  : validate_workflow and stored issues    *)
(*   - tools/credentials_tools.py : encrypted credential storage           *)
(*   - supervisor.py              : keyword routing and the router graph   *)
(* Each subsystem has its own next-state relation and specification; the   *)
(* variables of the other subsystems stay unchanged under it.              *)
(***************************************************************************)
EXTENDS Integers, Sequences, FiniteSets, TLC

VARIABLES
    \* ---- clock, shared by the stores that hold expiry times
    now,            \* seconds since the start of the behaviour
    ticks,          \* number of clock advances taken so far
    \* ---- rate limiter (Redis)
    rlCount,        \* key -> stored counter, 0 when the key is absent
    rlExpire,       \* key -> absolute expiry time, NoExpiry when none is set
    rlLast,         \* the outcome of the most recent check_and_increment
    hWinStart,      \* history: key -> time of the first call of the current window
    hWinLen,        \* history: key -> length in seconds of the current window
    hCalls,         \* history: key -> calls made in the current window
    \* ---- backend tables (Supabase)
    flows,          \* workflow_flows: sequence of rows, the index is the id
    nodes,          \* workflow_nodes: set of rows
    edges,          \* workflow_edges: set of rows
    issues,         \* workflow_validation_issues: flow id -> sequence of rows
    creds,          \* workflow_credentials: set of rows
    nextId,         \* ids handed out by the backend for nodes, edges, credentials
    toolLast,       \* the result of the most recent tool call
    hValidated,     \* history: flow id -> issues found by its most recent validation
    hPlain,         \* history: credential id -> the plaintext token last stored in the row
    \* ---- credential encryption
    envKey,         \* CREDENTIAL_ENCRYPTION_KEY of the process environment
    keyGen,         \* number of keys Fernet.generate_key() has produced
    \* ---- supervisor graph
    pc,             \* the node of the supervisor graph about to run
    st,             \* the graph state (messages, current_agent, agent_history)
    st0,            \* history: the state the invocation started with
    ran,            \* history: the specialist nodes run in this invocation
    \* ---- CRM tables (Supabase)
    crm,            \* table -> id -> row of the CRM tables the update tools write
    \* ---- process environment and concurrent callers
    env,            \* the names of the API-key environment variables that are set
    procs           \* caller -> position and locals of its call in progress

rlVars   == <<rlCount, rlExpire, rlLast, hWinStart, hWinLen, hCalls>>
clockVars == <<now, ticks>>
dbVars   == <<flows, nodes, edges, issues, creds, nextId, toolLast, hValidated, hPlain>>
keyVars  == <<envKey, keyGen>>
supVars  == <<pc, st, st0, ran>>
crmVars  == <<crm>>
extVars  == <<env, procs>>
vars     == <<clockVars, rlVars, dbVars, keyVars, supVars, crmVars, extVars>>

Users == {"alice", "bob"}
None  == "None"
\* an optional integer argument left at its default, None
NoArg == -1

Max(a, b) == IF a >= b THEN a ELSE b

(***************************************************************************)
(*                          RATE LIMITER                                   *)
(***************************************************************************)

\* constants.py RATE_LIMITS (the message templates are left out)
RATE_LIMITS ==
    [ workflow_create   |-> [limit |-> 20,  window_hours   |-> 1],
      workflow_validate |-> [limit |-> 50,  window_hours   |-> 1],
      workflow_explain  |-> [limit |-> 100, window_hours   |-> 1],
      db_writes         |-> [limit |-> 10,  window_minutes |-> 1] ]

\* ---- bounds of the rate-limiter exploration
RLUsers       == {"alice"}
RLActions     == {"db_writes", "workflow_create", "workflow_purge"}
CustomLimits  == {NoArg, 0, 3}
CustomWindows == {NoArg, 2}
TickSteps     == {30, 3600}
MaxTicks      == 2
MaxOver       == 1      \* calls explored beyond the largest limit in force

RLKeys   == RLUsers \X RLActions
NoExpiry == -1

\* Redis TTL: -2 for an absent key, -1 for a key without expiry
RedisTtl(count, expire, k) ==
    IF count[k] = 0 THEN -2
    ELSE IF expire[k] = NoExpiry THEN -1
    ELSE expire[k] - now

\* limit = custom_limit or config["limit"]
EffectiveLimit(action, custom_limit) ==
    IF custom_limit = NoArg \/ custom_limit = 0
    THEN RATE_LIMITS[action].limit
    ELSE custom_limit

\* the window-type branches of check_and_increment
WindowSeconds(action, custom_window_hours) ==
    LET config == RATE_LIMITS[action] IN
    IF "window_hours" \in DOMAIN config
    THEN (IF custom_window_hours # NoArg THEN custom_window_hours
                                        ELSE config.window_hours) * 3600
    ELSE IF "window_minutes" \in DOMAIN config
    THEN config.window_minutes * 60
    ELSE 3600

\* "if current == 1": the writes of redis.expire(key, window_seconds)
ExpireAlways(current, expire, k, window_seconds) ==
    [expire EXCEPT ![k] = now + window_seconds]

ExpireOnFirst(current, expire, k, window_seconds) ==
    IF current = 1
    THEN [expire EXCEPT ![k] = now + window_seconds]
    ELSE expire

\* "if current > limit": whether the call raises RateLimitExceeded
ExceededAtLimit(current, limit) == current >= limit

Exceeded(current, limit) == current > limit

\* the ideal fixed window the history variables follow: a window opens at the
\* first call made while none is open and closes hWinLen seconds later
WindowClosedAt(k, t) == hWinStart[k] # NoExpiry /\ t >= hWinStart[k] + hWinLen[k]

WindowOpen(k) == hWinStart[k] # NoExpiry /\ now < hWinStart[k] + hWinLen[k]

CheckAndIncrement(user_id, action, custom_limit, custom_window_hours) ==
    LET k == <<user_id, action>> IN
    IF action \notin DOMAIN RATE_LIMITS
    THEN \* "No rate limit defined for action": return 0
         /\ rlLast' = [op |-> "check", user |-> user_id, action |-> action,
                       limit |-> 0, outcome |-> "noconfig",
                       current |-> 0, reset_in_seconds |-> 0, minutes |-> 0,
                       nth |-> 0]
         /\ UNCHANGED <<rlCount, rlExpire, hWinStart, hWinLen, hCalls>>
    ELSE
      LET limit          == EffectiveLimit(action, custom_limit)
          window_seconds == WindowSeconds(action, custom_window_hours)
          current        == rlCount[k] + 1                       \* INCR
          count1         == [rlCount EXCEPT ![k] = current]
          expire1        == ExpireOnFirst(current, rlExpire, k, window_seconds)
          ttl            == RedisTtl(count1, expire1, k)
          nth            == IF WindowOpen(k) THEN hCalls[k] + 1 ELSE 1
      IN
      /\ rlCount[k] < Max(limit, RATE_LIMITS[action].limit) + MaxOver
      /\ rlCount' = count1
      /\ rlExpire' = expire1
      /\ hCalls' = [hCalls EXCEPT ![k] = nth]
      /\ hWinStart' = IF WindowOpen(k) THEN hWinStart
                      ELSE [hWinStart EXCEPT ![k] = now]
      /\ hWinLen' = IF WindowOpen(k) THEN hWinLen
                    ELSE [hWinLen EXCEPT ![k] = window_seconds]
      /\ rlLast' =
           IF Exceeded(current, limit)
           THEN [op |-> "check", user |-> user_id, action |-> action,
                 limit |-> limit, outcome |-> "raised",
                 current |-> current, reset_in_seconds |-> ttl,
                 minutes |-> Max(1, ttl \div 60), nth |-> nth]
           ELSE [op |-> "check", user |-> user_id, action |-> action,
                 limit |-> limit, outcome |-> "ok",
                 current |-> current, reset_in_seconds |-> 0, minutes |-> 0,
                 nth |-> nth]

\* check_rate_limit: the convenience entry point (no custom window)
CheckRateLimit ==
    \E u \in RLUsers, a \in RLActions, cl \in CustomLimits :
        /\ CheckAndIncrement(u, a, cl, NoArg)
        /\ UNCHANGED <<clockVars, dbVars, keyVars, crmVars, extVars, supVars>>

\* WorkflowRateLimiter.check_and_increment called with a custom window
CheckWithWindow ==
    \E u \in RLUsers, a \in RLActions, cw \in CustomWindows \ {NoArg} :
        /\ CheckAndIncrement(u, a, NoArg, cw)
        /\ UNCHANGED <<clockVars, dbVars, keyVars, crmVars, extVars, supVars>>

\* get_remaining: reads the counter and its TTL, changes nothing in Redis
GetRemaining ==
    \E u \in RLUsers, a \in RLActions :
        LET k == <<u, a>> IN
        /\ rlLast' =
             IF a \notin DOMAIN RATE_LIMITS
             THEN [op |-> "remaining", user |-> u, action |-> a, limit |-> 0,
                   current |-> 0, remaining |-> 0, reset_in_seconds |-> 0]
             ELSE [op |-> "remaining", user |-> u, action |-> a,
                   limit |-> RATE_LIMITS[a].limit,
                   current |-> rlCount[k],
                   remaining |-> Max(0, RATE_LIMITS[a].limit - rlCount[k]),
                   reset_in_seconds |-> Max(0, RedisTtl(rlCount, rlExpire, k))]
        /\ UNCHANGED <<rlCount, rlExpire, hWinStart, hWinLen, hCalls>>
        /\ UNCHANGED <<clockVars, dbVars, keyVars, crmVars, extVars, supVars>>

\* reset_user_limits: deletes every rate_limit:<user_id>:* key
ResetUserLimits ==
    \E u \in RLUsers :
        /\ \E k \in RLKeys : k[1] = u /\ rlCount[k] > 0
        /\ rlCount'  = [k \in RLKeys |-> IF k[1] = u THEN 0 ELSE rlCount[k]]
        /\ rlExpire' = [k \in RLKeys |-> IF k[1] = u THEN NoExpiry ELSE rlExpire[k]]
        /\ hCalls'   = [k \in RLKeys |-> IF k[1] = u THEN 0 ELSE hCalls[k]]
        /\ hWinStart' = [k \in RLKeys |-> IF k[1] = u THEN NoExpiry ELSE hWinStart[k]]
        /\ hWinLen'  = [k \in RLKeys |-> IF k[1] = u THEN 0 ELSE hWinLen[k]]
        /\ rlLast' = [op |-> "reset", user |-> u]
        /\ UNCHANGED <<clockVars, dbVars, keyVars, crmVars, extVars, supVars>>

\* time passes; Redis drops the keys whose expiry has been reached
Tick ==
    \E d \in TickSteps :
        /\ ticks < MaxTicks
        /\ now' = now + d
        /\ ticks' = ticks + 1
        /\ rlCount' = [k \in RLKeys |->
               IF rlExpire[k] # NoExpiry /\ rlExpire[k] <= now + d
               THEN 0 ELSE rlCount[k]]
        /\ rlExpire' = [k \in RLKeys |->
               IF rlExpire[k] # NoExpiry /\ rlExpire[k] <= now + d
               THEN NoExpiry ELSE rlExpire[k]]
        /\ hWinStart' = [k \in RLKeys |->
               IF WindowClosedAt(k, now + d) THEN NoExpiry ELSE hWinStart[k]]
        /\ hWinLen' = [k \in RLKeys |->
               IF WindowClosedAt(k, now + d) THEN 0 ELSE hWinLen[k]]
        /\ hCalls' = [k \in RLKeys |->
               IF WindowClosedAt(k, now + d) THEN 0 ELSE hCalls[k]]
        /\ UNCHANGED rlLast
        /\ UNCHANGED <<dbVars, keyVars, crmVars, extVars, supVars>>

(***************************************************************************)
(*                 FLOW / NODE / EDGE TOOLS (flow_graph_tools.py)          *)
(***************************************************************************)

NodesOf(flow_id) == {n \in nodes : n.flow_id = flow_id}
EdgesOf(flow_id) == {e \in edges : e.flow_id = flow_id}

AccessDenied == "Flow not found or access denied"
FlowDenied   == "Workflow not found or access denied"

\* select("id").eq("id", flow_id): a lookup without the owner filter
FlowExists(flow_id, user_id) == flow_id \in 1..Len(flows)

\* select("id").eq("id", flow_id).eq("owner", user_id): the ownership-filtered lookup
OwnsFlow(flow_id, user_id) ==
    /\ flow_id \in 1..Len(flows)
    /\ flows[flow_id].owner = user_id

Result(tool, user_id, flow_id, success, error) ==
    [tool |-> tool, user |-> user_id, flow_id |-> flow_id,
     success |-> success, error |-> error]

\* create_workflow_flow: inserts a draft row owned by user_id
CreateWorkflowFlow(user_id) ==
    /\ flows' = Append(flows, [owner |-> user_id, status |-> "draft",
                                activated_at |-> NoExpiry])
    /\ issues' = Append(issues, <<>>)
    /\ hValidated' = Append(hValidated, [done |-> FALSE, issues |-> <<>>])
    /\ toolLast' = Result("create_workflow_flow", user_id, Len(flows) + 1, TRUE, "")
    /\ UNCHANGED <<nodes, edges, creds, nextId, hPlain>>

\* update_data["activated_at"]: written when the new status is "active"
\* (NoExpiry in a row stands for a null timestamp)
ActivatedAtKept(status, old) == old
ActivatedAt(status, old) == IF status = "active" THEN now ELSE old

\* update_workflow_flow: update(...).eq("id", flow_id).eq("owner", user_id);
\* status = "" stands for a call that leaves the status out
UpdateWorkflowFlow(flow_id, user_id, status) ==
    /\ IF OwnsFlow(flow_id, user_id)
       THEN /\ flows' = [flows EXCEPT ![flow_id] =
                 IF status = "" THEN @
                 ELSE [@ EXCEPT !.status = status,
                                !.activated_at = ActivatedAt(status, @)]]
            /\ toolLast' = Result("update_workflow_flow", user_id, flow_id, TRUE, "")
       ELSE /\ flows' = flows
            /\ toolLast' = Result("update_workflow_flow", user_id, flow_id, FALSE,
                                  FlowDenied)
    /\ UNCHANGED <<nodes, edges, issues, creds, nextId, hValidated, hPlain>>

\* delete_workflow_flow: archives the row
DeleteWorkflowFlow(flow_id, user_id) ==
    /\ IF OwnsFlow(flow_id, user_id)
       THEN /\ flows' = [flows EXCEPT ![flow_id].status = "archived"]
            /\ toolLast' = Result("delete_workflow_flow", user_id, flow_id, TRUE, "")
       ELSE /\ flows' = flows
            /\ toolLast' = Result("delete_workflow_flow", user_id, flow_id, FALSE,
                                  FlowDenied)
    /\ UNCHANGED <<nodes, edges, issues, creds, nextId, hValidated, hPlain>>

\* create_workflow_node
CreateWorkflowNode(flow_id, node_type, config, user_id) ==
    /\ IF ~OwnsFlow(flow_id, user_id)
       THEN /\ toolLast' = Result("create_workflow_node", user_id, flow_id, FALSE,
                                  AccessDenied)
            /\ UNCHANGED <<nodes, nextId>>
       ELSE /\ nodes' = nodes \cup {[id |-> nextId.node, flow_id |-> flow_id,
                                     node_type |-> node_type, config |-> config]}
            /\ nextId' = [nextId EXCEPT !.node = @ + 1]
            /\ toolLast' = Result("create_workflow_node", user_id, flow_id, TRUE, "")
    /\ UNCHANGED <<flows, edges, issues, creds, hValidated, hPlain>>

\* bulk_create_nodes: one insert of several rows
BulkCreateNodes(flow_id, user_id, kinds) ==
    /\ IF ~OwnsFlow(flow_id, user_id)
       THEN /\ toolLast' = Result("bulk_create_nodes", user_id, flow_id, FALSE,
                                  AccessDenied)
            /\ UNCHANGED <<nodes, nextId>>
       ELSE /\ nodes' = nodes \cup
                 {[id |-> nextId.node + i - 1, flow_id |-> flow_id,
                   node_type |-> kinds[i][1], config |-> kinds[i][2]]
                      : i \in 1..Len(kinds)}
            /\ nextId' = [nextId EXCEPT !.node = @ + Len(kinds)]
            /\ toolLast' = Result("bulk_create_nodes", user_id, flow_id, TRUE, "")
    /\ UNCHANGED <<flows, edges, issues, creds, hValidated, hPlain>>

\* update_workflow_node: update(...).eq("id", node_id).eq("flow_id", flow_id)
UpdateWorkflowNode(node_id, flow_id, user_id, config) ==
    /\ IF ~OwnsFlow(flow_id, user_id)
       THEN /\ toolLast' = Result("update_workflow_node", user_id, flow_id, FALSE,
                                  AccessDenied)
            /\ nodes' = nodes
       ELSE LET hit == {n \in nodes : n.id = node_id /\ n.flow_id = flow_id} IN
            /\ nodes' = (nodes \ hit) \cup {[n EXCEPT !.config = config] : n \in hit}
            /\ toolLast' = IF hit # {}
                 THEN Result("update_workflow_node", user_id, flow_id, TRUE, "")
                 ELSE Result("update_workflow_node", user_id, flow_id, FALSE,
                             "Node not found")
    /\ UNCHANGED <<flows, edges, issues, creds, nextId, hValidated, hPlain>>

\* delete_workflow_node: delete().eq("id", node_id).eq("flow_id", flow_id);
\* the edges that touch the node are left as they are
DeleteWorkflowNode(node_id, flow_id, user_id) ==
    /\ IF ~OwnsFlow(flow_id, user_id)
       THEN /\ toolLast' = Result("delete_workflow_node", user_id, flow_id, FALSE,
                                  AccessDenied)
            /\ nodes' = nodes
       ELSE /\ nodes' = {n \in nodes : ~(n.id = node_id /\ n.flow_id = flow_id)}
            /\ toolLast' = Result("delete_workflow_node", user_id, flow_id, TRUE, "")
    /\ UNCHANGED <<flows, edges, issues, creds, nextId, hValidated, hPlain>>

\* create_workflow_edge: from_node and to_node are stored as given
CreateWorkflowEdge(flow_id, from_node, to_node, user_id) ==
    /\ IF ~OwnsFlow(flow_id, user_id)
       THEN /\ toolLast' = Result("create_workflow_edge", user_id, flow_id, FALSE,
                                  AccessDenied)
            /\ UNCHANGED <<edges, nextId>>
       ELSE /\ edges' = edges \cup {[id |-> nextId.edge, flow_id |-> flow_id,
                                     from_node |-> from_node, to_node |-> to_node]}
            /\ nextId' = [nextId EXCEPT !.edge = @ + 1]
            /\ toolLast' = Result("create_workflow_edge", user_id, flow_id, TRUE, "")
    /\ UNCHANGED <<flows, nodes, issues, creds, hValidated, hPlain>>

\* bulk_create_edges: one insert of several rows
BulkCreateEdges(flow_id, user_id, pairs) ==
    /\ IF ~OwnsFlow(flow_id, user_id)
       THEN /\ toolLast' = Result("bulk_create_edges", user_id, flow_id, FALSE,
                                  AccessDenied)
            /\ UNCHANGED <<edges, nextId>>
       ELSE /\ edges' = edges \cup
                 {[id |-> nextId.edge + i - 1, flow_id |-> flow_id,
                   from_node |-> pairs[i][1], to_node |-> pairs[i][2]]
                      : i \in 1..Len(pairs)}
            /\ nextId' = [nextId EXCEPT !.edge = @ + Len(pairs)]
            /\ toolLast' = Result("bulk_create_edges", user_id, flow_id, TRUE, "")
    /\ UNCHANGED <<flows, nodes, issues, creds, hValidated, hPlain>>

\* delete_workflow_edge: delete().eq("id", edge_id).eq("flow_id", flow_id)
DeleteWorkflowEdge(edge_id, flow_id, user_id) ==
    /\ IF ~OwnsFlow(flow_id, user_id)
       THEN /\ toolLast' = Result("delete_workflow_edge", user_id, flow_id, FALSE,
                                  AccessDenied)
            /\ edges' = edges
       ELSE /\ edges' = {e \in edges : ~(e.id = edge_id /\ e.flow_id = flow_id)}
            /\ toolLast' = Result("delete_workflow_edge", user_id, flow_id, TRUE, "")
    /\ UNCHANGED <<flows, nodes, issues, creds, nextId, hValidated, hPlain>>

(***************************************************************************)
(*                 STRINGS, as Python's str operations use them            *)
(***************************************************************************)

\* sub in s
Contains(sub, s) ==
    \E i \in 1..(Len(s) - Len(sub) + 1) : SubSeq(s, i, i + Len(sub) - 1) = sub

\* s.startswith(prefix)
StartsWith(s, prefix) ==
    Len(prefix) <= Len(s) /\ SubSeq(s, 1, Len(prefix)) = prefix

\* s.split(sep)[0] for a one-character sep: the text before the first sep
SplitFirst(s, sep) ==
    IF \E i \in 1..Len(s) : SubSeq(s, i, i) = sep
    THEN LET i == CHOOSE j \in 1..Len(s) :
                     /\ SubSeq(s, j, j) = sep
                     /\ \A h \in 1..(j - 1) : SubSeq(s, h, h) # sep
         IN SubSeq(s, 1, i - 1)
    ELSE s

\* the sequences that list every element of S once
Perms(S) ==
    {q \in [1..Cardinality(S) -> S] :
        \A i, j \in 1..Cardinality(S) : i # j => q[i] # q[j]}

\* the elements of a set of rows in ascending id order (the order of insertion)
RECURSIVE ById(_)
ById(rows) ==
    IF rows = {} THEN <<>>
    ELSE LET r == CHOOSE x \in rows : \A y \in rows : x.id <= y.id
         IN <<r>> \o ById(rows \ {r})

RECURSIVE Flatten(_)
Flatten(seqs) ==
    IF seqs = <<>> THEN <<>> ELSE Head(seqs) \o Flatten(Tail(seqs))

(***************************************************************************)
(*                 CONNECTOR REGISTRY (constants.py)                       *)
(***************************************************************************)

AVAILABLE_CONNECTORS ==
    [ gmail            |-> [name |-> "Gmail", provider |-> "google", api_key_required |-> FALSE],
      outlook          |-> [name |-> "Outlook Email", provider |-> "microsoft", api_key_required |-> FALSE],
      google_calendar  |-> [name |-> "Google Calendar", provider |-> "google", api_key_required |-> FALSE],
      outlook_calendar |-> [name |-> "Outlook Calendar", provider |-> "microsoft", api_key_required |-> FALSE],
      calendly         |-> [name |-> "Calendly", provider |-> "calendly", api_key_required |-> TRUE],
      google_drive     |-> [name |-> "Google Drive", provider |-> "google", api_key_required |-> FALSE],
      onedrive         |-> [name |-> "OneDrive", provider |-> "microsoft", api_key_required |-> FALSE],
      google_sheets    |-> [name |-> "Google Sheets", provider |-> "google", api_key_required |-> FALSE],
      excel            |-> [name |-> "Microsoft Excel", provider |-> "microsoft", api_key_required |-> FALSE],
      google_docs      |-> [name |-> "Google Docs", provider |-> "google", api_key_required |-> FALSE],
      word             |-> [name |-> "Microsoft Word", provider |-> "microsoft", api_key_required |-> FALSE],
      slack            |-> [name |-> "Slack", provider |-> "slack", api_key_required |-> FALSE],
      teams            |-> [name |-> "Microsoft Teams", provider |-> "microsoft", api_key_required |-> FALSE],
      zoom             |-> [name |-> "Zoom", provider |-> "zoom", api_key_required |-> FALSE],
      salesforce       |-> [name |-> "Salesforce", provider |-> "salesforce", api_key_required |-> FALSE],
      hubspot          |-> [name |-> "HubSpot", provider |-> "hubspot", api_key_required |-> FALSE],
      suitecrm         |-> [name |-> "SuiteCRM", provider |-> "internal", api_key_required |-> FALSE],
      tasks            |-> [name |-> "Tasks", provider |-> "internal", api_key_required |-> FALSE],
      notes            |-> [name |-> "Notes", provider |-> "internal", api_key_required |-> FALSE],
      docusign         |-> [name |-> "DocuSign", provider |-> "docusign", api_key_required |-> FALSE],
      linkedin         |-> [name |-> "LinkedIn", provider |-> "linkedin", api_key_required |-> FALSE],
      zapier           |-> [name |-> "Zapier", provider |-> "zapier", api_key_required |-> TRUE],
      make             |-> [name |-> "Make (Integromat)", provider |-> "make", api_key_required |-> TRUE],
      webhook          |-> [name |-> "Webhook", provider |-> "generic", api_key_required |-> FALSE] ]

OAUTH_PROVIDERS ==
    {"google", "microsoft", "slack", "salesforce", "hubspot", "linkedin", "zoom",
     "docusign", "calendly"}

\* node_type.split("_")[0]
ConnectorIdOf(node_type) == SplitFirst(node_type, "_")

(***************************************************************************)
(*                 CREDENTIALS (credentials_tools.py)                      *)
(***************************************************************************)

\* ---- bounds of the credential exploration
MaxCreds  == 2      \* rows of workflow_credentials ever inserted
MaxKeyGen == 3      \* temporary keys Fernet.generate_key() may hand out

\* A stored token value is a record: alg "fernet" for a Fernet token made with
\* `key` from `data`, alg "none" for the text `data` itself.
Plain(token) == [alg |-> "none", key |-> 0, data |-> token]

\* get_encryption_key: the environment's key, or a newly generated one.
\* Keys are numbered: 0 is the environment's key, n > 0 the n-th generated key.
GetEncryptionKey(n) == IF envKey = "unset" THEN n + 1 ELSE 0

\* the number of keys generated by one call of get_encryption_key
KeysUsed == IF envKey = "unset" THEN 1 ELSE 0

\* Fernet(key) raises ValueError for a key that is not 32 url-safe base64 bytes
FernetRaises == envKey = "malformed"

\* encrypt_token, with the key get_encryption_key returns after n earlier keys
EncryptToken(token, n) ==
    [alg |-> "fernet", key |-> GetEncryptionKey(n), data |-> token]

\* decrypt_token: the plaintext, or "raise" (InvalidToken) for another key's token
DecryptOk(blob, n) == blob.alg = "fernet" /\ blob.key = GetEncryptionKey(n)

CredRows(user_id, provider, account_identifier) ==
    {c \in creds : /\ c.owner = user_id
                   /\ c.provider = provider
                   /\ (account_identifier # "" => c.account = account_identifier)}

\* expires_at < datetime.utcnow(), for a row that has an expiry
IsExpired(c) == c.expires_at # NoExpiry /\ c.expires_at < now

\* store_credential
StoreCredential(user_id, provider, token, account_identifier, expires_in_seconds) ==
    /\ keyGen + KeysUsed <= MaxKeyGen
    /\ keyGen' = keyGen + KeysUsed
    /\ IF FernetRaises
       THEN /\ toolLast' = [tool |-> "store_credential", user |-> user_id,
                            flow_id |-> 0, success |-> FALSE, error |-> "ValueError"]
            /\ UNCHANGED <<creds, nextId, hPlain>>
       ELSE
         LET encrypted_token  == EncryptToken(token, keyGen)
             token_expires_at == IF expires_in_seconds # NoArg /\ expires_in_seconds # 0
                                 THEN now + expires_in_seconds ELSE NoExpiry
             existing == {c \in creds : /\ c.owner = user_id
                                         /\ c.provider = provider
                                         /\ c.account = account_identifier}
             first    == CHOOSE c \in existing : \A d \in existing : c.id <= d.id
         IN
         IF existing # {}
         THEN /\ creds' = (creds \ {first}) \cup
                    {[first EXCEPT !.token = encrypted_token,
                                   !.expires_at = token_expires_at]}
              /\ hPlain' = [hPlain EXCEPT ![first.id] = token]
              /\ toolLast' = [tool |-> "store_credential", user |-> user_id,
                              flow_id |-> 0, success |-> TRUE, error |-> "",
                              credential_id |-> first.id]
              /\ UNCHANGED nextId
         ELSE /\ nextId.cred <= MaxCreds
              /\ creds' = creds \cup
                    {[id |-> nextId.cred, owner |-> user_id, provider |-> provider,
                      account |-> account_identifier, token |-> encrypted_token,
                      expires_at |-> token_expires_at, last_used_at |-> NoExpiry]}
              /\ hPlain' = Append(hPlain, token)
              /\ nextId' = [nextId EXCEPT !.cred = @ + 1]
              /\ toolLast' = [tool |-> "store_credential", user |-> user_id,
                              flow_id |-> 0, success |-> TRUE, error |-> "",
                              credential_id |-> nextId.cred]
    /\ UNCHANGED <<flows, nodes, edges, issues, hValidated>>

\* delete_credential: delete().eq("id", credential_id).eq("owner", user_id)
DeleteCredential(credential_id, user_id) ==
    /\ creds' = {c \in creds : ~(c.id = credential_id /\ c.owner = user_id)}
    /\ toolLast' = [tool |-> "delete_credential", user |-> user_id, flow_id |-> 0,
                    success |-> TRUE, error |-> ""]
    /\ UNCHANGED <<flows, nodes, edges, issues, nextId, hValidated, hPlain, keyGen>>

\* get_credential_for_connector; h_row and h_expired record, for the claims, the
\* row the lookup returned first and whether it had expired
GetCredentialForConnector(user_id, connector_id, account_identifier) ==
    LET Out(success, error, token, row, expired) ==
            [tool |-> "get_credential_for_connector", user |-> user_id,
             flow_id |-> 0, success |-> success, error |-> error, token |-> token,
             h_row |-> row, h_expired |-> expired]
    IN
    IF connector_id \notin DOMAIN AVAILABLE_CONNECTORS
    THEN /\ toolLast' = Out(FALSE, "Connector not found", Plain(None), 0, FALSE)
         /\ UNCHANGED <<creds, keyGen>>
    ELSE LET provider == AVAILABLE_CONNECTORS[connector_id].provider
             rows == CredRows(user_id, provider, account_identifier)
         IN
         IF provider = "internal"
         THEN /\ toolLast' = Out(TRUE, "", Plain(None), 0, FALSE)
              /\ UNCHANGED <<creds, keyGen>>
         ELSE IF rows = {}
         THEN /\ toolLast' = Out(FALSE, "No credential found", Plain(None), 0, FALSE)
              /\ UNCHANGED <<creds, keyGen>>
         ELSE \E cred \in rows :          \* result.data[0]
              IF IsExpired(cred)
              THEN /\ toolLast' = Out(FALSE, "Token has expired", Plain(None),
                                      cred.id, TRUE)
                   /\ UNCHANGED <<creds, keyGen>>
              ELSE /\ keyGen + KeysUsed <= MaxKeyGen
                   /\ keyGen' = keyGen + KeysUsed
                   /\ IF FernetRaises
                      THEN /\ toolLast' = Out(FALSE, "ValueError", Plain(None),
                                              cred.id, FALSE)
                           /\ creds' = creds
                      ELSE IF ~DecryptOk(cred.token, keyGen)
                      THEN /\ toolLast' = Out(FALSE, "InvalidToken", Plain(None),
                                              cred.id, FALSE)
                           /\ creds' = creds
                      ELSE /\ toolLast' = Out(TRUE, "", Plain(cred.token.data),
                                              cred.id, FALSE)
                           /\ creds' = (creds \ {cred}) \cup
                                 {[cred EXCEPT !.last_used_at = now]}

GetCredential(user_id, connector_id, account_identifier) ==
    /\ GetCredentialForConnector(user_id, connector_id, account_identifier)
    /\ UNCHANGED <<flows, nodes, edges, issues, nextId, hValidated, hPlain>>

(***************************************************************************)
(*                 CREDENTIAL CHECKS FOR A FLOW (credentials_tools.py)     *)
(***************************************************************************)

\* check_credential_exists(user_id, provider), given the row the query returns
\* first (0 when it returns none): connected and is_expired
CredentialMissing(first) ==
    first = 0 \/ \E c \in creds : c.id = first /\ IsExpired(c)

\* config.oauth_redirect_base
RedirectBase == "https://app.example"

\* get_oauth_connection_url(user_id, connector_id).get("oauth_url")
OauthUrl(user_id, connector_id) ==
    LET connector == AVAILABLE_CONNECTORS[connector_id] IN
    IF connector.api_key_required THEN None
    ELSE IF connector.provider = "internal" THEN None
    ELSE IF connector.provider \notin OAUTH_PROVIDERS THEN None
    ELSE RedirectBase \o "/oauth/connect?provider=" \o connector.provider
             \o "&user_id=" \o user_id

\* the connector ids check_credentials_for_workflow collects from the nodes
RequiredConnectors(flow_id) ==
    {ConnectorIdOf(n.node_type) : n \in NodesOf(flow_id)} \cap DOMAIN AVAILABLE_CONNECTORS

\* the providers whose credentials the flow's connectors need
RequiredProviders(flow_id) ==
    {AVAILABLE_CONNECTORS[c].provider : c \in RequiredConnectors(flow_id)} \ {"internal"}

\* the possible answers of the backend to the per-provider credential queries:
\* for each provider the id of the row returned first, 0 when there is none
FirstRows(flow_id, user_id) ==
    {f \in [RequiredProviders(flow_id) -> {0} \cup {c.id : c \in creds}] :
        \A p \in DOMAIN f :
            IF CredRows(user_id, p, "") = {} THEN f[p] = 0
            ELSE f[p] \in {c.id : c \in CredRows(user_id, p, "")}}

\* check_credentials_for_workflow: the connectors reported missing
MissingConnectors(flow_id, user_id, first) ==
    {c \in RequiredConnectors(flow_id) :
        /\ AVAILABLE_CONNECTORS[c].provider # "internal"
        /\ CredentialMissing(first[AVAILABLE_CONNECTORS[c].provider])}

\* the columns of a workflow_credentials row (the model's `token` is the
\* encrypted_token column)
Project(row, columns) == [f \in columns |-> row[f]]

\* select("id, provider, label, account_identifier, scopes, created_at,
\* updated_at, last_used_at, token_expires_at"), as far as the model keeps them
ListColumnsAll == {"id", "provider", "account", "last_used_at", "expires_at", "token"}
ListColumns == {"id", "provider", "account", "last_used_at", "expires_at"}

\* list_user_credentials(user_id, provider); provider "" is None
ListUserCredentials(user_id, provider) ==
    LET rows == {c \in creds : c.owner = user_id /\ (provider # "" => c.provider = provider)}
        credentials ==
            {[f \in ListColumns \cup {"is_expired"} |->
                 IF f = "is_expired" THEN IsExpired(c) ELSE Project(c, ListColumns)[f]]
             : c \in rows}
    IN
    /\ toolLast' = [tool |-> "list_user_credentials", user |-> user_id, flow_id |-> 0,
                    success |-> TRUE, error |-> "", credentials |-> credentials,
                    count |-> Cardinality(credentials)]
    /\ UNCHANGED <<flows, nodes, edges, issues, creds, nextId, hValidated, hPlain, keyGen>>

\* check_credential_exists(user_id, provider, account_identifier): the first row
\* of select("id, label, account_identifier, token_expires_at")
CheckCredentialExists(user_id, provider, account_identifier) ==
    LET rows == CredRows(user_id, provider, account_identifier) IN
    /\ IF rows = {}
       THEN toolLast' = [tool |-> "check_credential_exists", user |-> user_id,
                         flow_id |-> 0, success |-> TRUE, error |-> "",
                         connected |-> FALSE, provider |-> provider]
       ELSE \E c \in rows :
              LET cred == Project(c, {"id", "account", "expires_at"}) IN
              toolLast' = [tool |-> "check_credential_exists", user |-> user_id,
                           flow_id |-> 0, success |-> TRUE, error |-> "",
                           connected |-> TRUE, provider |-> provider,
                           account |-> cred.account,
                           is_expired |-> cred.expires_at # NoExpiry /\ cred.expires_at < now]
    /\ UNCHANGED <<flows, nodes, edges, issues, creds, nextId, hValidated, hPlain, keyGen>>

\* check_credentials_for_workflow: the nodes are read by flow_id alone
CheckCredentialsForWorkflow(flow_id, user_id) ==
    /\ IF NodesOf(flow_id) = {}
       THEN toolLast' = [tool |-> "check_credentials_for_workflow", user |-> user_id,
                         flow_id |-> flow_id, success |-> TRUE, error |-> "",
                         all_connected |-> TRUE, missing |-> <<>>, required |-> {},
                         h_now |-> now]
       ELSE \E first \in FirstRows(flow_id, user_id) :
            \E order \in Perms(MissingConnectors(flow_id, user_id, first)) :
              toolLast' =
                [tool |-> "check_credentials_for_workflow", user |-> user_id,
                 flow_id |-> flow_id, success |-> TRUE, error |-> "",
                 all_connected |-> order = <<>>,
                 missing |-> [i \in 1..Len(order) |->
                     [connector_id |-> order[i],
                      connector_name |-> AVAILABLE_CONNECTORS[order[i]].name,
                      provider |-> AVAILABLE_CONNECTORS[order[i]].provider,
                      oauth_url |-> OauthUrl(user_id, order[i])]],
                 required |-> RequiredConnectors(flow_id), h_now |-> now]
    /\ UNCHANGED <<flows, nodes, edges, issues, creds, nextId, hValidated, hPlain>>

(***************************************************************************)
(*                 VALIDATION (validation_tools.py)                        *)
(***************************************************************************)

Issue(severity, node_id, field, message) ==
    [severity |-> severity, node_id |-> node_id, field |-> field, message |-> message]

\* config.get(key): "" when the key is absent
CfgGet(config, key) ==
    IF \E kv \in config : kv[1] = key
    THEN (CHOOSE kv \in config : kv[1] = key)[2]
    ELSE ""

\* validate_node_config
ValidateNodeConfig(node) ==
    LET node_type    == node.node_type
        config       == node.config
        connector_id == ConnectorIdOf(node_type)
        Need(severity, key, message) ==
            IF CfgGet(config, key) = ""
            THEN <<Issue(severity, node.id, key, message)>> ELSE <<>>
    IN
    IF connector_id \notin DOMAIN AVAILABLE_CONNECTORS
    THEN <<Issue("error", node.id, "node_type", "Unknown connector: " \o connector_id)>>
    ELSE IF connector_id = "gmail"
    THEN IF Contains("_action", node_type) /\ Contains("send_email", node_type)
         THEN Need("error", "to", "Email recipient is required")
              \o Need("warning", "subject", "Email subject is empty")
              \o Need("warning", "body", "Email body is empty")
         ELSE <<>>
    ELSE IF connector_id \in {"google_calendar", "outlook_calendar"}
    THEN IF Contains("_action", node_type) /\ Contains("create_event", node_type)
         THEN Need("error", "calendar_id", "Calendar ID is required")
              \o Need("error", "title", "Event title is required")
              \o Need("error", "start_time", "Event start time is required")
         ELSE <<>>
    ELSE IF connector_id = "webhook"
    THEN IF Contains("_action", node_type)
         THEN IF CfgGet(config, "url") = ""
              THEN <<Issue("error", node.id, "url", "Webhook URL is required")>>
              ELSE IF ~(StartsWith(CfgGet(config, "url"), "http://")
                        \/ StartsWith(CfgGet(config, "url"), "https://"))
              THEN <<Issue("error", node.id, "url", "Invalid webhook URL format")>>
              ELSE <<>>
         ELSE <<>>
    ELSE IF connector_id = "slack"
    THEN IF Contains("_action", node_type) /\ Contains("send_message", node_type)
         THEN Need("error", "channel", "Slack channel is required")
              \o Need("warning", "message", "Message content is empty")
         ELSE <<>>
    ELSE <<>>

\* has_circular_dependency: the adjacency lists, keyed by the flow's node ids
GraphOf(ns, es) ==
    [id \in {n.id : n \in ns} |->
        LET out == ById({e \in es : e.from_node = id})
        IN [i \in 1..Len(out) |-> out[i].to_node]]

\* the depth-first search of has_circular_dependency; the result carries the
\* visited set, which the search shares between its calls
RECURSIVE Dfs(_, _, _, _)
RECURSIVE DfsLoop(_, _, _, _, _)
Dfs(graph, node_id, visited, rec_stack) ==
    DfsLoop(graph,
            IF node_id \in DOMAIN graph THEN graph[node_id] ELSE <<>>,
            1, visited \cup {node_id}, rec_stack \cup {node_id})

DfsLoop(graph, neighbors, i, visited, rec_stack) ==
    IF i > Len(neighbors) THEN [found |-> FALSE, visited |-> visited]
    ELSE LET neighbor == neighbors[i] IN
         IF neighbor \notin visited
         THEN LET r == Dfs(graph, neighbor, visited, rec_stack) IN
              IF r.found THEN r
              ELSE DfsLoop(graph, neighbors, i + 1, r.visited, rec_stack)
         ELSE IF neighbor \in rec_stack
         THEN [found |-> TRUE, visited |-> visited]
         ELSE DfsLoop(graph, neighbors, i + 1, visited, rec_stack)

RECURSIVE DfsAll(_, _, _)
DfsAll(graph, order, visited) ==
    IF order = <<>> THEN FALSE
    ELSE IF Head(order) \in visited THEN DfsAll(graph, Tail(order), visited)
    ELSE LET r == Dfs(graph, Head(order), visited, {}) IN
         r.found \/ DfsAll(graph, Tail(order), r.visited)

\* graph[edge["from_node"]] raises KeyError for an edge that starts at no node
\* of the flow
CycleCheckRaises(ns, es) == \E e \in es : e.from_node \notin {n.id : n \in ns}

HasCircularDependency(ns, es) ==
    LET order == ById(ns) IN
    DfsAll(GraphOf(ns, es), [i \in 1..Len(order) |-> order[i].id], {})

\* error_count == 0
CanActivateStrict(error_count, warning_count) == error_count + warning_count = 0

CanActivate(error_count, warning_count) == error_count = 0

CountSeverity(iss, severity) ==
    Cardinality({i \in 1..Len(iss) : iss[i].severity = severity})

\* validations 1 to 6 of validate_workflow, given the order in which the missing
\* connectors come out of the credential check
ValidationIssues(flow_id, user_id, missing) ==
    LET ns == NodesOf(flow_id)
        es == EdgesOf(flow_id)
        node_ids        == {n.id : n \in ns}
        connected_nodes == {e.from_node : e \in es} \cup {e.to_node : e \in es}
        disconnected    == node_ids \ connected_nodes
        ordered         == ById(ns)
    IN
    (IF Cardinality(ns) = 0
     THEN <<Issue("error", 0, "nodes", "Workflow must have at least one node")>>
     ELSE <<>>)
    \o (IF {n \in ns : Contains("_trigger", n.node_type)} = {}
        THEN <<Issue("error", 0, "trigger", "Workflow must have at least one trigger")>>
        ELSE <<>>)
    \o (IF disconnected # {} /\ Cardinality(ns) > 1
        THEN <<Issue("warning", 0, "edges",
                     ToString(Cardinality(disconnected)) \o " node(s) are not connected")>>
        ELSE <<>>)
    \o Flatten([i \in 1..Len(ordered) |-> ValidateNodeConfig(ordered[i])])
    \o [i \in 1..Len(missing) |->
            Issue("error", 0, "credentials",
                  "Missing or expired connection for "
                      \o AVAILABLE_CONNECTORS[missing[i]].name)]
    \o (IF HasCircularDependency(ns, es)
        THEN <<Issue("error", 0, "edges", "Workflow contains circular dependencies")>>
        ELSE <<>>)

\* store_validation_issues: delete the flow's rows, insert the new ones
StoredRows(iss) ==
    [i \in 1..Len(iss) |->
        [severity |-> iss[i].severity, issue_type |-> iss[i].field,
         node_id |-> iss[i].node_id, field_name |-> iss[i].field,
         message |-> iss[i].message, resolved |-> FALSE]]

\* "if issues: store_validation_issues(flow_id, issues)"
StoreIfAny(stored, flow_id, iss) ==
    IF iss # <<>> THEN [stored EXCEPT ![flow_id] = StoredRows(iss)] ELSE stored

\* whether the edges contain a directed cycle: some node id reaches itself
RECURSIVE ReachIn(_, _, _)
ReachIn(es, from, k) ==
    IF k = 0 THEN from
    ELSE ReachIn(es, from \cup {e.to_node : e \in {x \in es : x.from_node \in from}}, k - 1)

EdgesHaveCycle(es) ==
    \E e \in es : e.from_node \in ReachIn(es, {e.to_node}, Cardinality(es))

\* validate_workflow
ValidateWorkflow(flow_id, user_id) ==
    LET Out(success, error, can, status, iss, cyclic) ==
            [tool |-> "validate_workflow", user |-> user_id, flow_id |-> flow_id,
             success |-> success, error |-> error, can_activate |-> can,
             status |-> status, issues |-> iss,
             errors |-> CountSeverity(iss, "error"),
             warnings |-> CountSeverity(iss, "warning"),
             h_cyclic |-> cyclic]
    IN
    /\ IF ~OwnsFlow(flow_id, user_id)
       THEN /\ toolLast' = Out(FALSE, FlowDenied, FALSE, "", <<>>, FALSE)
            /\ UNCHANGED <<issues, hValidated>>
       ELSE IF CycleCheckRaises(NodesOf(flow_id), EdgesOf(flow_id))
       THEN /\ toolLast' = Out(FALSE, "KeyError", FALSE, "", <<>>,
                               EdgesHaveCycle(EdgesOf(flow_id)))
            /\ hValidated' = [hValidated EXCEPT ![flow_id].done = FALSE]
            /\ UNCHANGED issues
       ELSE \E first \in FirstRows(flow_id, user_id) :
            \E missing \in Perms(MissingConnectors(flow_id, user_id, first)) :
              LET iss == ValidationIssues(flow_id, user_id, missing)
                  error_count   == CountSeverity(iss, "error")
                  warning_count == CountSeverity(iss, "warning")
                  can_activate  == CanActivate(error_count, warning_count)
              IN
              /\ issues' = StoreIfAny(issues, flow_id, iss)
              /\ hValidated' = [hValidated EXCEPT ![flow_id] =
                                    [done |-> TRUE, issues |-> iss]]
              /\ toolLast' = Out(TRUE, "", can_activate,
                                 IF can_activate THEN "ready" ELSE "needs_fixes",
                                 iss, EdgesHaveCycle(EdgesOf(flow_id)))
    /\ UNCHANGED <<flows, nodes, edges, creds, nextId, hPlain>>

\* get_validation_issues: the flow's rows that carry no resolved_at
GetValidationIssues(flow_id, user_id) ==
    /\ toolLast' =
         IF ~OwnsFlow(flow_id, user_id)
         THEN [tool |-> "get_validation_issues", user |-> user_id,
               flow_id |-> flow_id, success |-> FALSE, error |-> FlowDenied,
               issues |-> <<>>]
         ELSE [tool |-> "get_validation_issues", user |-> user_id,
               flow_id |-> flow_id, success |-> TRUE, error |-> "",
               issues |-> SelectSeq(issues[flow_id], LAMBDA r : ~r.resolved)]
    /\ UNCHANGED <<flows, nodes, edges, issues, creds, nextId, hValidated, hPlain>>

\* resolve_validation_issue: update(resolved_at).eq("id", issue_id).eq("flow_id", flow_id);
\* the id of a stored row is its position among the flow's rows
ResolveValidationIssue(issue_id, flow_id, user_id) ==
    /\ IF ~OwnsFlow(flow_id, user_id)
       THEN /\ toolLast' = Result("resolve_validation_issue", user_id, flow_id, FALSE,
                                  FlowDenied)
            /\ UNCHANGED <<issues, hValidated>>
       ELSE /\ issues' = [issues EXCEPT ![flow_id] =
                 [i \in 1..Len(@) |-> IF i = issue_id
                                      THEN [@[i] EXCEPT !.resolved = TRUE] ELSE @[i]]]
            /\ hValidated' = [hValidated EXCEPT ![flow_id].done = FALSE]
            /\ toolLast' = Result("resolve_validation_issue", user_id, flow_id, TRUE, "")
    /\ UNCHANGED <<flows, nodes, edges, creds, nextId, hPlain>>

(***************************************************************************)
(*                 SUPERVISOR (supervisor.py)                              *)
(***************************************************************************)

\* A message is [role, is_list, blocks]: its content is the string blocks[1],
\* or, when is_list, the list of text blocks `blocks`.
Msg(role, text) == [role |-> role, is_list |-> FALSE, blocks |-> <<text>>]
MsgBlocks(role, blocks) == [role |-> role, is_list |-> TRUE, blocks |-> blocks]

\* the graph state; current_agent "" stands for None or an absent key
EmptyState == [messages |-> <<>>, current_agent |-> "", agent_history |-> <<>>]

UpperAlpha == "ABCDEFGHIJKLMNOPQRSTUVWXYZ"
LowerAlpha == "abcdefghijklmnopqrstuvwxyz"

\* str.lower() of one character
LowerChar(c) ==
    IF \E i \in 1..Len(UpperAlpha) : SubSeq(UpperAlpha, i, i) = c
    THEN LET i == CHOOSE j \in 1..Len(UpperAlpha) : SubSeq(UpperAlpha, j, j) = c
         IN SubSeq(LowerAlpha, i, i)
    ELSE c

\* str.lower() of the characters lo..hi of s
RECURSIVE LowerRange(_, _, _)
LowerRange(s, lo, hi) ==
    IF lo > hi THEN ""
    ELSE IF lo = hi THEN LowerChar(SubSeq(s, lo, lo))
    ELSE LET mid == (lo + hi) \div 2
         IN LowerRange(s, lo, mid) \o LowerRange(s, mid + 1, hi)

\* str.lower()
Lower(s) == LowerRange(s, 1, Len(s))

\* " ".join(blocks)
RECURSIVE JoinSpace(_)
JoinSpace(blocks) ==
    IF blocks = <<>> THEN ""
    ELSE IF Len(blocks) = 1 THEN blocks[1]
    ELSE blocks[1] \o " " \o JoinSpace(Tail(blocks))

\* the text route_to_agent matches against: the content, flattened, in lower case
ContentOf(message) ==
    Lower(IF message.is_list THEN JoinSpace(message.blocks) ELSE message.blocks[1])

BuilderWords ==
    <<"create", "build", "make", "add", "edit", "modify", "update",
      "set up", "new workflow", "automation", "trigger", "action">>
ValidatorWords ==
    <<"validate", "check", "test", "ready", "activate",
      "errors", "issues", "problems", "fix", "dry run">>
ExplainerWords ==
    <<"why", "what happened", "explain", "debug", "error",
      "didn't run", "failed", "logs", "history">>
DataMapperWords ==
    <<"map", "match", "contact", "find", "lookup",
      "email", "address", "entity">>

\* any(word in content for word in words)
AnyIn(words, content) == \E i \in 1..Len(words) : Contains(words[i], content)

\* route_to_agent with the routing hint looked at after the keywords
RouteToAgentHintLast(state) ==
    IF state.messages = <<>> THEN "end"
    ELSE LET content == ContentOf(state.messages[Len(state.messages)]) IN
         IF AnyIn(BuilderWords, content) THEN "builder"
         ELSE IF AnyIn(ValidatorWords, content) THEN "validator"
         ELSE IF AnyIn(ExplainerWords, content) THEN "explainer"
         ELSE IF AnyIn(DataMapperWords, content) THEN "data_mapper"
         ELSE IF state.current_agent # "" THEN state.current_agent
         ELSE "builder"

RouteToAgent(state) ==
    IF state.messages = <<>> THEN "end"
    ELSE LET content == ContentOf(state.messages[Len(state.messages)]) IN
         IF state.current_agent # "" THEN state.current_agent
         ELSE IF AnyIn(BuilderWords, content) THEN "builder"
         ELSE IF AnyIn(ValidatorWords, content) THEN "validator"
         ELSE IF AnyIn(ExplainerWords, content) THEN "explainer"
         ELSE IF AnyIn(DataMapperWords, content) THEN "data_mapper"
         ELSE "builder"

Specialists == {"builder", "validator", "explainer", "data_mapper"}

Greeting ==
    "Hi! I'm your workflow automation assistant. I can help you create, validate, and debug workflows. What would you like to do?"

\* workflow_supervisor.ainvoke(state): START -> supervisor
Invoke(messages, current_agent, agent_history) ==
    /\ pc \in {"idle", "end", "error"}
    /\ st' = [messages |-> messages, current_agent |-> current_agent,
              agent_history |-> agent_history]
    /\ st0' = st'
    /\ ran' = <<>>
    /\ pc' = "supervisor"

\* supervisor_node
SupervisorNode ==
    /\ pc = "supervisor"
    /\ IF st.messages = <<>>
       THEN st' = [st EXCEPT !.messages = <<Msg("assistant", Greeting)>>]
       ELSE LET next_agent == RouteToAgent(st) IN
            st' = [st EXCEPT !.current_agent = next_agent,
                             !.agent_history = Append(@, next_agent)]
    /\ pc' = "route"
    /\ UNCHANGED <<st0, ran>>

\* the conditional edges out of "supervisor": route_to_agent on the updated
\* state, mapped to a node; a name outside the mapping raises
RouteEdge ==
    /\ pc = "route"
    /\ LET r == RouteToAgent(st) IN
       pc' = IF r \in Specialists THEN r
             ELSE IF r = "end" THEN "end"
             ELSE "error"
    /\ UNCHANGED <<st, st0, ran>>

\* add_edge(agent, END) looped back to the supervisor instead
EdgeBackToSupervisor(agent) == "supervisor"

\* add_edge(agent, END), for each specialist
EdgeAfter(agent) == "end"

\* a specialist node: invoke_<agent>_agent returns the agent's reply (or its
\* error message); routing fields are not among the keys it writes
SpecialistNode(agent) ==
    /\ pc = agent
    /\ \E reply \in {"Done.", "I encountered an error"} :
         st' = [st EXCEPT !.messages = Append(@, Msg("assistant", reply))]
    /\ ran' = Append(ran, agent)
    /\ pc' = EdgeAfter(agent)
    /\ UNCHANGED st0

(***************************************************************************)
(*                 CRM UPDATE TOOLS (suitecrm_tools)                       *)
(***************************************************************************)

\* the update tools: the table each writes, its optional parameters, and
\* whether its update_data starts as {"updated_at": datetime.now().isoformat()}
UPDATE_TOOLS ==
    [update_contact |->
        [table |-> "contacts", stamped |-> TRUE,
         params |-> {"name", "email", "company", "source", "target_size", "phone",
                     "tags", "asset_type", "budget_min", "budget_max", "notes"}],
     update_deal |->
        [table |-> "deals", stamped |-> TRUE,
         params |-> {"title", "category", "priority", "deadline", "description",
                     "deal_value", "stage", "expected_close", "notes"}],
     update_listing |->
        [table |-> "listings", stamped |-> TRUE,
         params |-> {"title", "asking_price", "status", "description",
                     "square_footage", "zoning", "year_built", "parking_details",
                     "amenities"}],
     update_task |->
        [table |-> "tasks", stamped |-> FALSE,
         params |-> {"title", "status", "priority", "due_date", "description"}],
     update_note |->
        [table |-> "notes", stamped |-> TRUE,
         params |-> {"content", "title"}],
     update_calendar_event |->
        [table |-> "calendar_events", stamped |-> TRUE,
         params |-> {"title", "start_time", "end_time", "location", "description"}]]

UpdateToolNames == DOMAIN UPDATE_TOOLS

\* the column a parameter is written to
ColumnOf(tool, param) ==
    IF tool = "update_contact" /\ param = "phone" THEN "phone_number" ELSE param

\* the columns of a tool's table that the model keeps
ColumnsOf(tool) ==
    {ColumnOf(tool, q) : q \in UPDATE_TOOLS[tool].params} \cup {"updated_at"}

\* update_data: the timestamp when the tool writes one, then one entry for
\* each parameter that is not None (`supplied` maps those to their values)
Stamps(tool) == UPDATE_TOOLS[tool].stamped

UpdateData(tool, supplied) ==
    LET cols == {ColumnOf(tool, q) : q \in DOMAIN supplied}
                   \cup (IF Stamps(tool) THEN {"updated_at"} ELSE {})
    IN [c \in cols |->
           IF c = "updated_at" THEN now
           ELSE supplied[CHOOSE q \in DOMAIN supplied : ColumnOf(tool, q) = c]]

\* supabase.table(t).update(update_data).eq("id", id).execute() and the result
\* the tool returns
UpdateRow(tool, id, supplied) ==
    LET table == UPDATE_TOOLS[tool].table
        update_data == UpdateData(tool, supplied)
        found == id \in DOMAIN crm[table]
    IN
    /\ crm' = IF found
              THEN [crm EXCEPT ![table][id] =
                       [c \in DOMAIN @ |-> IF c \in DOMAIN update_data
                                            THEN update_data[c] ELSE @[c]]]
              ELSE crm
    /\ toolLast' = [tool |-> tool, user |-> "", flow_id |-> 0, success |-> found,
                    error |-> IF found THEN "" ELSE "not found",
                    h_table |-> table, h_id |-> id, h_supplied |-> supplied,
                    h_patch |-> update_data]
    /\ UNCHANGED <<flows, nodes, edges, issues, creds, nextId, hValidated, hPlain>>

\* one row, id 1, in every table, never updated
CrmInit ==
    [t \in {UPDATE_TOOLS[x].table : x \in UpdateToolNames} |->
        [id \in {1} |->
            LET tool == CHOOSE x \in UpdateToolNames : UPDATE_TOOLS[x].table = t IN
            [c \in ColumnsOf(tool) |-> IF c = "updated_at" THEN NoExpiry ELSE "old"]]]

RLInit ==
    /\ now = 0
    /\ ticks = 0
    /\ rlCount  = [k \in RLKeys |-> 0]
    /\ rlExpire = [k \in RLKeys |-> NoExpiry]
    /\ rlLast = [op |-> "none"]
    /\ hWinStart = [k \in RLKeys |-> NoExpiry]
    /\ hWinLen = [k \in RLKeys |-> 0]
    /\ hCalls = [k \in RLKeys |-> 0]

DbInit ==
    /\ flows = <<>>
    /\ nodes = {}
    /\ edges = {}
    /\ issues = <<>>
    /\ creds = {}
    /\ nextId = [node |-> 1, edge |-> 1, cred |-> 1]
    /\ toolLast = [tool |-> "none"]
    /\ crm = CrmInit
    /\ hValidated = <<>>
    /\ hPlain = <<>>

SupInit ==
    /\ pc = "idle"
    /\ st = EmptyState
    /\ st0 = EmptyState
    /\ ran = <<>>

ExtInit ==
    /\ env = {}
    /\ procs = <<>>

OtherInit ==
    /\ DbInit
    /\ envKey = "unset"
    /\ keyGen = 0
    /\ SupInit
    /\ ExtInit

Init == RLInit /\ OtherInit

NextRL ==
    \/ CheckRateLimit
    \/ CheckWithWindow
    \/ GetRemaining
    \/ ResetUserLimits
    \/ Tick

SpecRL == Init /\ [][NextRL]_vars

C9_FixedWindow ==
    \A k \in RLKeys :
        rlCount[k] > 0 =>
            /\ rlExpire[k] = hWinStart[k] + hWinLen[k]
            /\ now < rlExpire[k]

\* a call has been rejected some time after its window opened, and the expiry
\* is still that of the window's first call
C9_Witness ==
    /\ rlLast.op = "check"
    /\ rlLast.outcome = "raised"
    /\ LET k == <<rlLast.user, rlLast.action>> IN
         /\ now > hWinStart[k]
         /\ rlLast.nth >= 2
         /\ rlLast.reset_in_seconds < hWinLen[k]
         /\ rlExpire[k] = hWinStart[k] + hWinLen[k]

(***************************************************************************)
(*   The flow, node and edge tools called by two users                     *)
(***************************************************************************)

\* ---- bounds and inputs of the exploration
OwnMaxFlows == 2    \* rows of workflow_flows ever inserted
OwnMaxNodes == 2    \* rows of workflow_nodes ever inserted
OwnMaxEdges == 1    \* rows of workflow_edges ever inserted
OwnFlowIds  == 1..OwnMaxFlows
OwnNodeIds  == 1..OwnMaxNodes
OwnEdgeIds  == 1..OwnMaxEdges
OwnNodeType == "gmail_trigger"

OtherUnchanged == UNCHANGED <<rlVars, clockVars, keyVars, crmVars, extVars, supVars>>

OwnCreateFlow ==
    /\ Len(flows) < OwnMaxFlows
    /\ \E u \in Users : CreateWorkflowFlow(u)
    /\ OtherUnchanged
OwnUpdateFlow ==
    /\ \E f \in OwnFlowIds, u \in Users : UpdateWorkflowFlow(f, u, "active")
    /\ OtherUnchanged
OwnDeleteFlow ==
    /\ \E f \in OwnFlowIds, u \in Users : DeleteWorkflowFlow(f, u)
    /\ OtherUnchanged
OwnCreateNode ==
    /\ nextId.node <= OwnMaxNodes
    /\ \E f \in OwnFlowIds, u \in Users : CreateWorkflowNode(f, OwnNodeType, {}, u)
    /\ OtherUnchanged
OwnBulkNodes ==
    /\ nextId.node + 1 <= OwnMaxNodes
    /\ \E f \in OwnFlowIds, u \in Users :
          BulkCreateNodes(f, u, <<<<OwnNodeType, {}>>, <<OwnNodeType, {}>>>>)
    /\ OtherUnchanged
OwnUpdateNode ==
    /\ \E n \in OwnNodeIds, f \in OwnFlowIds, u \in Users :
          UpdateWorkflowNode(n, f, u, {<<"to", "a@x.com">>})
    /\ OtherUnchanged
OwnDeleteNode ==
    /\ \E n \in OwnNodeIds, f \in OwnFlowIds, u \in Users : DeleteWorkflowNode(n, f, u)
    /\ OtherUnchanged
OwnCreateEdge ==
    /\ nextId.edge <= OwnMaxEdges
    /\ \E f \in OwnFlowIds, u \in Users : CreateWorkflowEdge(f, 1, 2, u)
    /\ OtherUnchanged
OwnBulkEdges ==
    /\ nextId.edge <= OwnMaxEdges
    /\ \E f \in OwnFlowIds, u \in Users : BulkCreateEdges(f, u, <<<<2, 1>>>>)
    /\ OtherUnchanged
OwnDeleteEdge ==
    /\ \E e \in OwnEdgeIds, f \in OwnFlowIds, u \in Users : DeleteWorkflowEdge(e, f, u)
    /\ OtherUnchanged

NextOwn ==
    \/ OwnCreateFlow
    \/ OwnUpdateFlow
    \/ OwnDeleteFlow
    \/ OwnCreateNode
    \/ OwnBulkNodes
    \/ OwnUpdateNode
    \/ OwnDeleteNode
    \/ OwnCreateEdge
    \/ OwnBulkEdges
    \/ OwnDeleteEdge

SpecOwn == Init /\ [][NextOwn]_vars

MutatingTools ==
    {"update_workflow_flow", "delete_workflow_flow", "create_workflow_node",
     "bulk_create_nodes", "update_workflow_node", "delete_workflow_node",
     "create_workflow_edge", "bulk_create_edges", "delete_workflow_edge"}

\* C3: a tool call made with one user's id leaves every flow owned by another
\* user, and that flow's nodes and edges, exactly as they were, and a call that
\* targets such a flow returns an access-denied error.
C3_OwnershipEnforced ==
    [][\A f \in 1..Len(flows) :
          flows[f].owner # toolLast'.user =>
              /\ flows'[f] = flows[f]
              /\ {n \in nodes' : n.flow_id = f} = NodesOf(f)
              /\ {e \in edges' : e.flow_id = f} = EdgesOf(f)
              /\ toolLast'.flow_id = f =>
                     /\ ~toolLast'.success
                     /\ toolLast'.error \in {AccessDenied, FlowDenied}]_vars

\* a mutating tool has just been refused on a flow that has nodes and belongs to
\* another user
C3_Witness ==
    /\ toolLast.tool \in MutatingTools
    /\ ~toolLast.success
    /\ toolLast.error \in {AccessDenied, FlowDenied}
    /\ toolLast.flow_id \in 1..Len(flows)
    /\ flows[toolLast.flow_id].owner # toolLast.user
    /\ NodesOf(toolLast.flow_id) # {}

\* C10: every completed create_workflow_flow is counted by the rate limiter; as
\* stated by the claim, a step that inserts a flow also increments a counter.
C10_CreatesAreCounted ==
    [][Len(flows') > Len(flows) => rlCount' # rlCount]_vars

(***************************************************************************)
(*   Building a flow, connecting an account and validating the flow        *)
(***************************************************************************)

\* ---- bounds and inputs of the exploration
ValMaxFlows  == 1
ValMaxNodes  == 2
ValMaxEdges  == 2
ValMaxIssues == 1   \* stored issue ids a resolve call is tried with
ValFlowIds   == 1..ValMaxFlows
ValNodeIds   == 1..ValMaxNodes
ValNodeTypes == {"gmail_trigger", "tasks_action"}
ValEdgePairs == ValNodeIds \X ValNodeIds

InitVal ==
    /\ RLInit
    /\ DbInit
    /\ envKey = "valid"
    /\ keyGen = 0
    /\ SupInit
    /\ ExtInit

ValCreateFlow ==
    /\ Len(flows) < ValMaxFlows
    /\ CreateWorkflowFlow("alice")
    /\ OtherUnchanged
ValCreateNode ==
    /\ nextId.node <= ValMaxNodes
    /\ \E f \in ValFlowIds, t \in ValNodeTypes : CreateWorkflowNode(f, t, {}, "alice")
    /\ OtherUnchanged
ValDeleteNode ==
    /\ \E n \in ValNodeIds, f \in ValFlowIds : DeleteWorkflowNode(n, f, "alice")
    /\ OtherUnchanged
ValCreateEdge ==
    /\ nextId.edge <= ValMaxEdges
    /\ \E f \in ValFlowIds, e \in ValEdgePairs : CreateWorkflowEdge(f, e[1], e[2], "alice")
    /\ OtherUnchanged
ValStoreCredential ==
    /\ StoreCredential("alice", "google", "ya29.tok", "a@x.com", NoArg)
    /\ UNCHANGED <<envKey, crmVars, extVars, rlVars, clockVars, supVars>>
ValValidate ==
    /\ \E f \in ValFlowIds, u \in Users : ValidateWorkflow(f, u)
    /\ OtherUnchanged
ValGetIssues ==
    /\ \E f \in ValFlowIds, u \in Users : GetValidationIssues(f, u)
    /\ OtherUnchanged
ValResolve ==
    /\ \E i \in 1..ValMaxIssues, f \in ValFlowIds : ResolveValidationIssue(i, f, "alice")
    /\ OtherUnchanged

NextVal ==
    \/ ValCreateFlow
    \/ ValCreateNode
    \/ ValDeleteNode
    \/ ValCreateEdge
    \/ ValStoreCredential
    \/ ValValidate
    \/ ValGetIssues
    \/ ValResolve

SpecVal == InitVal /\ [][NextVal]_vars

CircularMessage == "Workflow contains circular dependencies"

\* C4: a validation of a flow whose edges contain a directed cycle succeeds with
\* an error-severity circular-dependency issue and can_activate false, and a
\* validation of a flow whose edges contain none reports no such issue.
C4_CyclesReported ==
    (toolLast.tool = "validate_workflow" /\ toolLast.error # FlowDenied) =>
        IF toolLast.h_cyclic
        THEN /\ toolLast.success
             /\ ~toolLast.can_activate
             /\ \E i \in 1..Len(toolLast.issues) :
                    /\ toolLast.issues[i].message = CircularMessage
                    /\ toolLast.issues[i].severity = "error"
        ELSE \A i \in 1..Len(toolLast.issues) :
                    toolLast.issues[i].message # CircularMessage

\* C5: in a successful validation result can_activate is true exactly when no
\* issue has error severity, and status is "ready" when it is true and
\* "needs_fixes" when it is false; warnings alone leave can_activate true.
C5_CanActivateIffNoErrors ==
    (toolLast.tool = "validate_workflow" /\ toolLast.success) =>
        /\ toolLast.can_activate =
              (\A i \in 1..Len(toolLast.issues) : toolLast.issues[i].severity # "error")
        /\ toolLast.status = IF toolLast.can_activate THEN "ready" ELSE "needs_fixes"
        /\ toolLast.status \in {"ready", "needs_fixes"}

\* a validation has just reported unconnected nodes as a warning and nothing of
\* error severity, and the flow can be activated
C5_Witness ==
    /\ toolLast.tool = "validate_workflow"
    /\ toolLast.success
    /\ toolLast.can_activate
    /\ toolLast.status = "ready"
    /\ \E i \in 1..Len(toolLast.issues) :
          /\ toolLast.issues[i].severity = "warning"
          /\ toolLast.issues[i].field = "edges"
    /\ Cardinality(NodesOf(toolLast.flow_id)) > 1

\* C6: with no resolve call since, the unresolved issues get_validation_issues
\* returns for a flow are exactly the issues its most recent validation found
\* (none when it found none).
C6_StoredAreLatest ==
    (/\ toolLast.tool = "get_validation_issues"
     /\ toolLast.success
     /\ hValidated[toolLast.flow_id].done)
    => /\ Len(toolLast.issues) = Len(hValidated[toolLast.flow_id].issues)
       /\ \A i \in 1..Len(toolLast.issues) :
             /\ toolLast.issues[i].message = hValidated[toolLast.flow_id].issues[i].message
             /\ toolLast.issues[i].severity = hValidated[toolLast.flow_id].issues[i].severity

(***************************************************************************)
(*   Storing, reading and deleting credentials                             *)
(***************************************************************************)

\* ---- inputs of the exploration
CredUsers      == {"alice"}
CredProviders  == {"google"}
CredConnectors == {"gmail", "tasks", "fax"}
CredTokens     == {"ya29.tok", "xoxb-tok"}
CredAccounts   == {"a@x.com", "b@x.com"}
CredExpiries   == {NoArg, 45}
EnvKeys        == {"unset", "valid", "malformed"}

InitCred ==
    /\ RLInit
    /\ DbInit
    /\ envKey \in EnvKeys
    /\ keyGen = 0
    /\ SupInit
    /\ ExtInit

CredStore ==
    /\ \E u \in CredUsers, p \in CredProviders, t \in CredTokens,
          a \in CredAccounts, x \in CredExpiries :
            StoreCredential(u, p, t, a, x)
    /\ UNCHANGED <<envKey, crmVars, extVars, rlVars, clockVars, supVars>>
CredGet ==
    /\ \E u \in CredUsers, c \in CredConnectors, a \in CredAccounts \cup {""} :
            GetCredential(u, c, a)
    /\ UNCHANGED <<envKey, crmVars, extVars, rlVars, clockVars, supVars>>
CredDelete ==
    /\ \E i \in 1..MaxCreds, u \in CredUsers : DeleteCredential(i, u)
    /\ UNCHANGED <<envKey, crmVars, extVars, rlVars, clockVars, supVars>>

NextCred ==
    \/ CredStore
    \/ CredGet
    \/ CredDelete
    \/ Tick

SpecCred == InitCred /\ [][NextCred]_vars

\* C2: a lookup that finds an unexpired stored credential returns exactly the
\* plaintext token last stored in that row, and no stored value equals its
\* plaintext.
C2_RoundTrip ==
    /\ (/\ toolLast.tool = "get_credential_for_connector"
        /\ toolLast.h_row # 0
        /\ ~toolLast.h_expired)
       => /\ toolLast.success
          /\ toolLast.token = Plain(hPlain[toolLast.h_row])
    /\ \A c \in creds : c.token # Plain(hPlain[c.id])

(***************************************************************************)
(*   Invocations of the supervisor graph                                   *)
(***************************************************************************)

\* ---- inputs of the exploration
SupTexts ==
    {"why did my workflow fail", "create a workflow that emails me",
     "hello there", "Check my new workflow", "Is it READY?",
     "find the contact", "Explain the last run"}
SupBlocks    == {<<"dry", "run">>, <<"why did", "it stop">>}
SupMessages  == {Msg("user", t) : t \in SupTexts}
                    \cup {MsgBlocks("user", b) : b \in SupBlocks}
SupConversations ==
    {<<>>} \cup {<<m>> : m \in SupMessages}
           \cup {<<Msg("user", "create a workflow that emails me"), m>> :
                    m \in {Msg("user", "why did my workflow fail")}}
SupHints     == {""} \cup Specialists \cup {"end", "planner"}
SupHistories == {<<>>, <<"builder">>}

SupInvoke ==
    /\ \E m \in SupConversations, h \in SupHints, a \in SupHistories : Invoke(m, h, a)
    /\ UNCHANGED <<rlVars, clockVars, dbVars, keyVars, crmVars, extVars>>
SupSupervisor ==
    /\ SupervisorNode
    /\ UNCHANGED <<rlVars, clockVars, dbVars, keyVars, crmVars, extVars>>
SupRoute ==
    /\ RouteEdge
    /\ UNCHANGED <<rlVars, clockVars, dbVars, keyVars, crmVars, extVars>>
SupBuilder ==
    /\ SpecialistNode("builder")
    /\ UNCHANGED <<rlVars, clockVars, dbVars, keyVars, crmVars, extVars>>
SupValidator ==
    /\ SpecialistNode("validator")
    /\ UNCHANGED <<rlVars, clockVars, dbVars, keyVars, crmVars, extVars>>
SupExplainer ==
    /\ SpecialistNode("explainer")
    /\ UNCHANGED <<rlVars, clockVars, dbVars, keyVars, crmVars, extVars>>
SupDataMapper ==
    /\ SpecialistNode("data_mapper")
    /\ UNCHANGED <<rlVars, clockVars, dbVars, keyVars, crmVars, extVars>>

NextSup ==
    \/ SupInvoke
    \/ SupSupervisor
    \/ SupRoute
    \/ SupBuilder
    \/ SupValidator
    \/ SupExplainer
    \/ SupDataMapper

SpecSup == Init /\ [][NextSup]_vars

\* the last message of the conversation an invocation started with
LastText0 ==
    LET m == st0.messages[Len(st0.messages)] IN
    IF m.is_list THEN JoinSpace(m.blocks) ELSE m.blocks[1]

C8_SingleHop ==
    (st0.messages # <<>> /\ pc \notin {"idle", "supervisor"}) =>
        /\ st.agent_history = Append(st0.agent_history, st.current_agent)
        /\ pc \in Specialists => pc = st.current_agent /\ ran = <<>>
        /\ Len(ran) <= 1
        /\ ran # <<>> => ran[1] = st.current_agent /\ pc = "end"

\* an invocation on a non-empty conversation has ended after its one specialist
C8_Witness ==
    /\ pc = "end"
    /\ st0.messages # <<>>
    /\ st0.current_agent = ""
    /\ Len(ran) = 1
    /\ ran[1] = st.current_agent
    /\ Len(st.agent_history) = Len(st0.agent_history) + 1

(***************************************************************************)
(*   Nodes of every kind of connector, validated and credential-checked    *)
(***************************************************************************)

\* ---- bounds and inputs of the exploration
ConnMaxNodes == 2
ConnNodeKinds ==
    {<<"google_calendar_action_create_event", {}>>,
     <<"google_calendar_action_create_event",
       {<<"calendar_id", "primary">>, <<"title", "Visit">>}>>,
     <<"outlook_calendar_action_create_event", {<<"title", "Visit">>}>>,
     <<"gmail_trigger", {}>>,
     <<"webhook_action", {<<"url", "https://hooks.example/x">>}>>,
     <<"tasks_action", {}>>}
ConnProviders == {"google"}
ConnExpiries  == {NoArg, 45}

ConnCreateFlow ==
    /\ Len(flows) < 1
    /\ CreateWorkflowFlow("alice")
    /\ OtherUnchanged
ConnCreateNode ==
    /\ nextId.node <= ConnMaxNodes
    /\ \E k \in ConnNodeKinds : CreateWorkflowNode(1, k[1], k[2], "alice")
    /\ OtherUnchanged
ConnStoreCredential ==
    /\ \E p \in ConnProviders, x \in ConnExpiries :
          StoreCredential("alice", p, "ya29.tok", "a@x.com", x)
    /\ UNCHANGED <<envKey, crmVars, extVars, rlVars, clockVars, supVars>>
ConnValidate ==
    /\ ValidateWorkflow(1, "alice")
    /\ OtherUnchanged
ConnCheckCredentials ==
    /\ CheckCredentialsForWorkflow(1, "alice")
    /\ OtherUnchanged

NextConn ==
    \/ ConnCreateFlow
    \/ ConnCreateNode
    \/ ConnStoreCredential
    \/ ConnValidate
    \/ ConnCheckCredentials
    \/ Tick

SpecConn == InitVal /\ [][NextConn]_vars

\* the registered connector ids a node type begins with
PrefixIds(node_type) ==
    {c \in DOMAIN AVAILABLE_CONNECTORS : StartsWith(node_type, c \o "_")}

\* the connector a node type names: the longest registered id it begins with
NamedConnector(node_type) ==
    CHOOSE c \in PrefixIds(node_type) : \A d \in PrefixIds(node_type) : Len(d) <= Len(c)

\* C11: in a successful validation, a node whose node_type begins with a
\* registered connector id gets no unknown-connector issue, and a Google or
\* Outlook calendar create-event action gets an error for calendar_id, title and
\* start_time exactly when the field is absent from its configuration.
C11_PrefixRecognised ==
    (toolLast.tool = "validate_workflow" /\ toolLast.success) =>
        \A n \in NodesOf(toolLast.flow_id) :
            PrefixIds(n.node_type) # {} =>
                /\ \A i \in 1..Len(toolLast.issues) :
                      ~(toolLast.issues[i].node_id = n.id
                        /\ toolLast.issues[i].field = "node_type")
                /\ (/\ NamedConnector(n.node_type) \in {"google_calendar", "outlook_calendar"}
                    /\ Contains("_action", n.node_type)
                    /\ Contains("create_event", n.node_type))
                   => \A k \in {"calendar_id", "title", "start_time"} :
                         (CfgGet(n.config, k) = "") <=>
                            \E i \in 1..Len(toolLast.issues) :
                                /\ toolLast.issues[i].node_id = n.id
                                /\ toolLast.issues[i].field = k
                                /\ toolLast.issues[i].severity = "error"

\* the connectors a flow's nodes name for which the user holds no unexpired
\* credential, internal connectors left out
LackingConnectors(flow_id, user_id) ==
    {c \in {NamedConnector(n.node_type) :
                n \in {x \in NodesOf(flow_id) : PrefixIds(x.node_type) # {}}} :
        /\ AVAILABLE_CONNECTORS[c].provider # "internal"
        /\ ~\E r \in creds : /\ r.owner = user_id
                             /\ r.provider = AVAILABLE_CONNECTORS[c].provider
                             /\ ~IsExpired(r)}

\* C12: check_credentials_for_workflow lists exactly one entry for each
\* non-internal connector the flow's nodes name for which the user has no
\* unexpired credential, and every entry carries an OAuth URL.
C12_OneEntryPerMissing ==
    (/\ toolLast.tool = "check_credentials_for_workflow"
     /\ toolLast.success
     /\ toolLast.h_now = now)
    => /\ {toolLast.missing[i].connector_id : i \in 1..Len(toolLast.missing)}
             = LackingConnectors(toolLast.flow_id, toolLast.user)
       /\ Len(toolLast.missing)
             = Cardinality(LackingConnectors(toolLast.flow_id, toolLast.user))
       /\ \A i \in 1..Len(toolLast.missing) : toolLast.missing[i].oauth_url # None

(***************************************************************************)
(*   Where a token may appear: the credential tools called in any order    *)
(***************************************************************************)

TokUsers    == {"alice", "bob"}
TokTokens   == {"ya29.tok", "ya29.new"}
TokAccounts == {"a@x.com"}

TokCreateFlow ==
    /\ Len(flows) < 1
    /\ CreateWorkflowFlow("alice")
    /\ OtherUnchanged
TokCreateNode ==
    /\ nextId.node <= 1
    /\ CreateWorkflowNode(1, "gmail_trigger", {}, "alice")
    /\ OtherUnchanged
TokStore ==
    /\ \E u \in TokUsers, t \in TokTokens, a \in TokAccounts :
          StoreCredential(u, "google", t, a, NoArg)
    /\ UNCHANGED <<envKey, crmVars, extVars, rlVars, clockVars, supVars>>
TokGet ==
    /\ \E u \in TokUsers : GetCredential(u, "gmail", "")
    /\ UNCHANGED <<envKey, crmVars, extVars, rlVars, clockVars, supVars>>
TokList ==
    /\ \E u \in TokUsers, p \in {"", "google"} : ListUserCredentials(u, p)
    /\ UNCHANGED <<envKey, crmVars, extVars, rlVars, clockVars, supVars>>
TokCheckExists ==
    /\ \E u \in TokUsers, a \in TokAccounts \cup {""} : CheckCredentialExists(u, "google", a)
    /\ UNCHANGED <<envKey, crmVars, extVars, rlVars, clockVars, supVars>>
TokCheckWorkflow ==
    /\ CheckCredentialsForWorkflow(1, "alice")
    /\ OtherUnchanged

NextTok ==
    \/ TokCreateFlow
    \/ TokCreateNode
    \/ TokStore
    \/ TokGet
    \/ TokList
    \/ TokCheckExists
    \/ TokCheckWorkflow

SpecTok == InitCred /\ [][NextTok]_vars

\* the tools whose results must hold no token
TokenFreeTools ==
    {"list_user_credentials", "check_credential_exists",
     "check_credentials_for_workflow", "store_credential"}

\* C13: every stored credential row holds the Fernet encryption of the token
\* it was given and no column of it is the plaintext; the results of
\* list_user_credentials, check_credential_exists, check_credentials_for_workflow
\* and store_credential hold neither a token field nor an encrypted-token field
\* nor the plaintext as their error text; only get_credential_for_connector
\* returns a token.
C13_TokenOnlyFromGet ==
    /\ \A c \in creds :
          /\ c.token.alg = "fernet"
          /\ c.token.data = hPlain[c.id]
          /\ c.token # Plain(hPlain[c.id])
          /\ hPlain[c.id] \notin {c.owner, c.provider, c.account}
    /\ toolLast.tool \in TokenFreeTools =>
          /\ DOMAIN toolLast \cap {"token", "encrypted_token"} = {}
          /\ toolLast.error \notin TokTokens
          /\ toolLast.tool = "list_user_credentials" =>
                \A r \in toolLast.credentials :
                    DOMAIN r \cap {"token", "encrypted_token"} = {}
    /\ "token" \in DOMAIN toolLast => toolLast.tool = "get_credential_for_connector"

\* a listing of a user who has a stored credential
C13_Witness ==
    /\ toolLast.tool = "list_user_credentials"
    /\ toolLast.count >= 1
    /\ \E c \in creds : c.owner = toolLast.user /\ c.token.data \in TokTokens

(***************************************************************************)
(*   Two users, their flows and the tools that read a flow                 *)
(***************************************************************************)

IsoMaxFlows  == 2
IsoMaxNodes  == 1
IsoFlowIds   == 1..IsoMaxFlows
IsoNodeTypes == {"gmail_trigger", "slack_action"}

IsoCreateFlow ==
    /\ Len(flows) < IsoMaxFlows
    /\ \E u \in Users : CreateWorkflowFlow(u)
    /\ OtherUnchanged
IsoCreateNode ==
    /\ nextId.node <= IsoMaxNodes
    /\ \E f \in IsoFlowIds, t \in IsoNodeTypes, u \in Users : CreateWorkflowNode(f, t, {}, u)
    /\ OtherUnchanged
IsoStoreCredential ==
    /\ \E u \in Users : StoreCredential(u, "google", "ya29.tok", "a@x.com", NoArg)
    /\ UNCHANGED <<envKey, crmVars, extVars, rlVars, clockVars, supVars>>
IsoValidate ==
    /\ \E f \in IsoFlowIds, u \in Users : ValidateWorkflow(f, u)
    /\ OtherUnchanged
IsoGetIssues ==
    /\ \E f \in IsoFlowIds, u \in Users : GetValidationIssues(f, u)
    /\ OtherUnchanged
IsoCheckCredentials ==
    /\ \E f \in IsoFlowIds, u \in Users : CheckCredentialsForWorkflow(f, u)
    /\ OtherUnchanged

NextIso ==
    \/ IsoCreateFlow
    \/ IsoCreateNode
    \/ IsoStoreCredential
    \/ IsoValidate
    \/ IsoGetIssues
    \/ IsoCheckCredentials

SpecIso == InitVal /\ [][NextIso]_vars

\* C14: the result of validate_workflow, get_validation_issues or
\* check_credentials_for_workflow called by a user on a flow that user does not
\* own holds nothing of the flow: no issue, no required connector, no missing
\* credential.
C14_NoForeignData ==
    (/\ toolLast.tool \in {"validate_workflow", "get_validation_issues",
                           "check_credentials_for_workflow"}
     /\ ~OwnsFlow(toolLast.flow_id, toolLast.user))
    => IF toolLast.tool = "check_credentials_for_workflow"
       THEN toolLast.required = {} /\ toolLast.missing = <<>>
       ELSE toolLast.issues = <<>>

(***************************************************************************)
(*   The flow tools with a backend whose calls may raise                   *)
(***************************************************************************)

\* which backend call of the tool raises: none, its first or its second
BackendFaults == {"none", "first", "second"}

\* the tool returned {"success": False, "error": str(e)} from its except clause
Failed(tool, user_id, flow_id) ==
    [tool |-> tool, user |-> user_id, flow_id |-> flow_id, success |-> FALSE,
     error |-> "backend unavailable", h_failed |-> TRUE]

\* the exception left the tool: there is no result
Escaped(tool, user_id, flow_id) ==
    [tool |-> tool, user |-> user_id, flow_id |-> flow_id, raised |-> TRUE,
     h_failed |-> TRUE]

NoWrite == UNCHANGED <<flows, nodes, edges, issues, creds, nextId, hValidated, hPlain>>

\* create_workflow_flow: its one backend call, the insert, is inside try
CreateWorkflowFlowFaulty(user_id, fault) ==
    IF fault = "first"
    THEN toolLast' = Failed("create_workflow_flow", user_id, 0) /\ NoWrite
    ELSE CreateWorkflowFlow(user_id)

\* update_workflow_flow: its one backend call, the update, is inside try
UpdateWorkflowFlowFaulty(flow_id, user_id, status, fault) ==
    IF fault = "first"
    THEN toolLast' = Failed("update_workflow_flow", user_id, flow_id) /\ NoWrite
    ELSE UpdateWorkflowFlow(flow_id, user_id, status)

\* create_workflow_node: the ownership lookup before the try, then the insert
\* inside it
CreateWorkflowNodeFaulty(flow_id, node_type, config, user_id, fault) ==
    IF fault = "first"
    THEN toolLast' = Escaped("create_workflow_node", user_id, flow_id) /\ NoWrite
    ELSE IF fault = "second" /\ OwnsFlow(flow_id, user_id)
    THEN toolLast' = Failed("create_workflow_node", user_id, flow_id) /\ NoWrite
    ELSE CreateWorkflowNode(flow_id, node_type, config, user_id)

\* bulk_create_nodes: the ownership lookup before the try, then the insert
\* inside it
BulkCreateNodesFaulty(flow_id, user_id, kinds, fault) ==
    IF fault = "first"
    THEN toolLast' = Escaped("bulk_create_nodes", user_id, flow_id) /\ NoWrite
    ELSE IF fault = "second" /\ OwnsFlow(flow_id, user_id)
    THEN toolLast' = Failed("bulk_create_nodes", user_id, flow_id) /\ NoWrite
    ELSE BulkCreateNodes(flow_id, user_id, kinds)

ExcMaxFlows == 2
ExcMaxNodes == 3

ExcCreateFlow ==
    /\ Len(flows) < ExcMaxFlows
    /\ \E u \in Users, x \in BackendFaults : CreateWorkflowFlowFaulty(u, x)
    /\ OtherUnchanged
ExcUpdateFlow ==
    /\ \E f \in 1..ExcMaxFlows, u \in Users, x \in BackendFaults :
          UpdateWorkflowFlowFaulty(f, u, "active", x)
    /\ OtherUnchanged
ExcCreateNode ==
    /\ nextId.node <= ExcMaxNodes
    /\ \E f \in 1..ExcMaxFlows, u \in Users, x \in BackendFaults :
          CreateWorkflowNodeFaulty(f, "gmail_trigger", {}, u, x)
    /\ OtherUnchanged
ExcBulkNodes ==
    /\ nextId.node + 1 <= ExcMaxNodes
    /\ \E f \in 1..ExcMaxFlows, u \in Users, x \in BackendFaults :
          BulkCreateNodesFaulty(f, u, <<<<"gmail_trigger", {}>>, <<"slack_action", {}>>>>, x)
    /\ OtherUnchanged

NextExc ==
    \/ ExcCreateFlow
    \/ ExcUpdateFlow
    \/ ExcCreateNode
    \/ ExcBulkNodes

SpecExc == Init /\ [][NextExc]_vars

\* C15: no call of a flow tool ends with the backend's exception leaving the
\* tool, and a call in which a backend call raised returns success = false.
C15_NoExceptionEscapes ==
    /\ "raised" \notin DOMAIN toolLast
    /\ "h_failed" \in DOMAIN toolLast => toolLast.success = FALSE

(***************************************************************************)
(*   The life of a flow: created, updated, archived, as time passes        *)
(***************************************************************************)

LifeMaxFlows == 2
LifeStatuses == {"", "active", "paused", "draft"}

LifeCreateFlow ==
    /\ Len(flows) < LifeMaxFlows
    /\ \E u \in Users : CreateWorkflowFlow(u)
    /\ OtherUnchanged
LifeUpdateFlow ==
    /\ \E f \in 1..LifeMaxFlows, u \in Users, x \in LifeStatuses : UpdateWorkflowFlow(f, u, x)
    /\ OtherUnchanged
LifeDeleteFlow ==
    /\ \E f \in 1..LifeMaxFlows, u \in Users : DeleteWorkflowFlow(f, u)
    /\ OtherUnchanged

NextLife ==
    \/ LifeCreateFlow
    \/ LifeUpdateFlow
    \/ LifeDeleteFlow
    \/ Tick

SpecLife == Init /\ [][NextLife]_vars

\* C16: a flow is inserted with status draft; a step that makes a flow active
\* writes the current time as its activated_at, so every active flow has one; a
\* successful delete_workflow_flow leaves the row with status archived; and no
\* step removes a row or changes its owner.
C16_Lifecycle ==
    /\ [](\A f \in 1..Len(flows) :
             flows[f].status = "active" => flows[f].activated_at # NoExpiry)
    /\ [][/\ Len(flows') >= Len(flows)
          /\ \A f \in 1..Len(flows) :
                /\ flows'[f].owner = flows[f].owner
                /\ (flows[f].status # "active" /\ flows'[f].status = "active")
                      => flows'[f].activated_at = now
          /\ \A f \in (Len(flows) + 1)..Len(flows') :
                flows'[f].status = "draft" /\ flows'[f].activated_at = NoExpiry
          /\ (toolLast'.tool = "delete_workflow_flow" /\ toolLast'.success
              /\ toolLast' # toolLast)
                => /\ Len(flows') = Len(flows)
                   /\ flows'[toolLast'.flow_id].status = "archived"]_vars

\* a flow activated after time has passed, beside one that was archived
C16_Witness ==
    \E f, g \in 1..Len(flows) :
        /\ flows[f].status = "active" /\ flows[f].activated_at > 0
        /\ flows[g].status = "archived"

(***************************************************************************)
(*                 DRY RUN (validation_tools.py)                           *)
(***************************************************************************)

\* build_execution_order: breadth-first from start_node_id over the adjacency
\* lists; a queued id that is no key of the graph has no children
RECURSIVE BfsLoop(_, _, _, _)
BfsLoop(graph, queue, visited, execution_order) ==
    IF queue = <<>> THEN execution_order
    ELSE LET current == Head(queue) IN
         IF current \in visited
         THEN BfsLoop(graph, Tail(queue), visited, execution_order)
         ELSE LET seen == visited \cup {current}
                  children == IF current \in DOMAIN graph THEN graph[current] ELSE <<>>
              IN BfsLoop(graph,
                         Tail(queue) \o SelectSeq(children, LAMBDA c : c \notin seen),
                         seen, Append(execution_order, current))

BuildExecutionOrder(ns, es, start_node_id) ==
    BfsLoop(GraphOf(ns, es), <<start_node_id>>, {}, <<>>)

\* sum(log["duration_ms"] for log in execution_log)
RECURSIVE SumDuration(_)
SumDuration(log) ==
    IF log = <<>> THEN 0 ELSE Head(log).duration_ms + SumDuration(Tail(log))

TriggerDurationMs == 10
StepDurationMs    == 50

\* the entries of the steps after the trigger: enumerate(execution_order[1:],
\* start=2), an id that is no node of the flow being passed over
StepEntries(ns, execution_order) ==
    LET Entry(idx) == [step |-> idx, node_id |-> execution_order[idx],
                       status |-> "success", duration_ms |-> StepDurationMs]
        kept == SelectSeq([i \in 1..(Len(execution_order) - 1) |-> i + 1],
                          LAMBDA idx : \E n \in ns : n.id = execution_order[idx])
    IN [i \in 1..Len(kept) |-> Entry(kept[i])]

\* dry_run_workflow
DryRunWorkflow(flow_id, user_id) ==
    LET ns == NodesOf(flow_id)
        es == EdgesOf(flow_id)
        trigger_nodes == ById({n \in ns : Contains("_trigger", n.node_type)})
        Out(success, error, log, order) ==
            [tool |-> "dry_run_workflow", user |-> user_id, flow_id |-> flow_id,
             success |-> success, error |-> error, execution_log |-> log,
             total_steps |-> Len(log),
             estimated_duration_ms |-> SumDuration(log), h_order |-> order]
    IN
    /\ toolLast' =
         IF ~OwnsFlow(flow_id, user_id) THEN Out(FALSE, FlowDenied, <<>>, <<>>)
         ELSE IF trigger_nodes = <<>> THEN Out(FALSE, "No trigger node found", <<>>, <<>>)
         ELSE IF CycleCheckRaises(ns, es) THEN Out(FALSE, "KeyError", <<>>, <<>>)
         ELSE LET trigger == trigger_nodes[1]
                  execution_order == BuildExecutionOrder(ns, es, trigger.id)
              IN Out(TRUE, "",
                     <<[step |-> 1, node_id |-> trigger.id, status |-> "success",
                        duration_ms |-> TriggerDurationMs]>>
                        \o StepEntries(ns, execution_order),
                     execution_order)
    /\ UNCHANGED <<flows, nodes, edges, issues, creds, nextId, hValidated, hPlain>>

\* ---- bounds and inputs of the exploration
DryMaxNodes == 3
DryMaxEdges == 2
DryNodeIds  == 1..DryMaxNodes
DryNodeTypes == {"gmail_trigger", "slack_action"}

DryCreateFlow ==
    /\ Len(flows) < 1
    /\ CreateWorkflowFlow("alice")
    /\ OtherUnchanged
DryCreateNode ==
    /\ nextId.node <= DryMaxNodes
    /\ \E t \in DryNodeTypes : CreateWorkflowNode(1, t, {}, "alice")
    /\ OtherUnchanged
DryDeleteNode ==
    /\ \E n \in DryNodeIds : DeleteWorkflowNode(n, 1, "alice")
    /\ OtherUnchanged
DryCreateEdge ==
    /\ nextId.edge <= DryMaxEdges
    /\ \E a, b \in DryNodeIds : CreateWorkflowEdge(1, a, b, "alice")
    /\ OtherUnchanged
DryRun ==
    /\ \E u \in Users : DryRunWorkflow(1, u)
    /\ OtherUnchanged

NextDry ==
    \/ DryCreateFlow
    \/ DryCreateNode
    \/ DryDeleteNode
    \/ DryCreateEdge
    \/ DryRun

SpecDry == Init /\ [][NextDry]_vars

\* the nodes of a flow within k edges of node `from`
RECURSIVE Within(_, _, _)
Within(flow_id, from, k) ==
    IF k = 0 THEN {from}
    ELSE LET near == Within(flow_id, from, k - 1) IN
         near \cup {e.to_node : e \in {x \in EdgesOf(flow_id) : x.from_node \in near}}

\* the number of edges on a shortest path from `from` to a node within reach
Distance(flow_id, from, to) ==
    CHOOSE k \in 0..Cardinality(EdgesOf(flow_id)) :
        /\ to \in Within(flow_id, from, k)
        /\ \A j \in 0..(k - 1) : to \notin Within(flow_id, from, j)

\* C17: a successful dry run logs the trigger and then every node of the flow
\* reachable from it, each once, nearer nodes before farther ones, with step
\* numbers 1, 2, 3, ... and estimated_duration_ms the sum of the entries'
\* duration_ms.
C17_DryRunLog ==
    (toolLast.tool = "dry_run_workflow" /\ toolLast.success) =>
        LET log   == toolLast.execution_log
            f     == toolLast.flow_id
            start == log[1].node_id
            reach == Within(f, start, Cardinality(EdgesOf(f)))
                        \cap {n.id : n \in NodesOf(f)}
        IN
        /\ {log[i].node_id : i \in 1..Len(log)} = reach
        /\ Len(log) = Cardinality(reach)
        /\ \A i \in 1..Len(log) : log[i].step = i
        /\ \A i, j \in 1..Len(log) :
              i < j => Distance(f, start, log[i].node_id) <= Distance(f, start, log[j].node_id)
        /\ toolLast.total_steps = Len(log)
        /\ toolLast.estimated_duration_ms = SumDuration(log)

(***************************************************************************)
(*   The invoke_* wrappers and invoke_workflow_supervisor when a call raises*)
(***************************************************************************)

\* the text each except clause puts before str(e)
AgentErrorText ==
    [builder     |-> "I encountered an error while building the workflow: ",
     validator   |-> "I encountered an error while validating the workflow: ",
     explainer   |-> "I encountered an error while explaining the workflow: ",
     data_mapper |-> "I encountered an error while mapping data: ",
     supervisor  |-> "I encountered an error: "]

\* str(e) of the exceptions of the exploration
ExceptionTexts == {"timeout", "rate limited"}

\* state.get("messages", []) + [{"role": "assistant", "content": ...}]
ErrorOnly(messages, who, e) == <<Msg("assistant", AgentErrorText[who] \o e)>>
WithError(messages, who, e) == messages \o <<Msg("assistant", AgentErrorText[who] \o e)>>

\* invoke_<agent>_agent(state, config): the agent's result, or the except clause
InvokeAgent(agent, raises, e) ==
    /\ pc = agent
    /\ LET result == IF raises THEN WithError(st.messages, agent, e)
                     ELSE Append(st.messages, Msg("assistant", "Done."))
       IN /\ st' = [st EXCEPT !.messages = result]
          /\ toolLast' = [tool |-> "invoke_agent", agent |-> agent, h_raised |-> raises,
                          h_prior |-> st.messages, messages |-> result]
    /\ ran' = Append(ran, agent)
    /\ pc' = EdgeAfter(agent)
    /\ UNCHANGED st0

\* workflow_supervisor.ainvoke raises between two of its steps
GraphRaises ==
    /\ pc \in {"supervisor", "route"}
    /\ pc' = "error"
    /\ UNCHANGED <<st, st0, ran>>

\* invoke_workflow_supervisor returns: the graph's result, or the except clause
SupervisorReturns(e) ==
    /\ pc \in {"end", "error"}
    /\ toolLast' =
         IF pc = "end"
         THEN [tool |-> "invoke_workflow_supervisor", success |-> TRUE, error |-> "",
               h_raised |-> FALSE, h_prior |-> st0.messages, messages |-> st.messages]
         ELSE [tool |-> "invoke_workflow_supervisor", success |-> FALSE, error |-> e,
               h_raised |-> TRUE, h_prior |-> st0.messages,
               messages |-> WithError(st0.messages, "supervisor", e)]
    /\ pc' = "idle"
    /\ UNCHANGED <<st, st0, ran>>

WrapDbUnchanged == UNCHANGED <<flows, nodes, edges, issues, creds, nextId, hValidated, hPlain>>

WrapInvoke ==
    /\ pc = "idle"
    /\ \E m \in SupConversations : Invoke(m, "", <<>>)
    /\ UNCHANGED <<rlVars, clockVars, dbVars, keyVars, crmVars, extVars>>
WrapSupervisor ==
    /\ SupervisorNode
    /\ UNCHANGED <<rlVars, clockVars, dbVars, keyVars, crmVars, extVars>>
WrapRoute ==
    /\ RouteEdge
    /\ UNCHANGED <<rlVars, clockVars, dbVars, keyVars, crmVars, extVars>>
WrapGraphRaises ==
    /\ GraphRaises
    /\ UNCHANGED <<rlVars, clockVars, dbVars, keyVars, crmVars, extVars>>
WrapAgent ==
    /\ \E a \in Specialists, raises \in BOOLEAN, e \in ExceptionTexts : InvokeAgent(a, raises, e)
    /\ WrapDbUnchanged
    /\ UNCHANGED <<rlVars, clockVars, keyVars, crmVars, extVars>>
WrapReturn ==
    /\ \E e \in ExceptionTexts : SupervisorReturns(e)
    /\ WrapDbUnchanged
    /\ UNCHANGED <<rlVars, clockVars, keyVars, crmVars, extVars>>

NextWrap ==
    \/ WrapInvoke
    \/ WrapSupervisor
    \/ WrapRoute
    \/ WrapGraphRaises
    \/ WrapAgent
    \/ WrapReturn

SpecWrap == Init /\ [][NextWrap]_vars

\* C18: when the agent behind an invoke_* wrapper raised, or the graph behind
\* invoke_workflow_supervisor raised, the call still returned, and the messages
\* it returned are the conversation it was given followed by exactly one
\* message, of role assistant, whose text states the failure.
C18_ErrorIsOneMessage ==
    (toolLast.tool \in {"invoke_agent", "invoke_workflow_supervisor"} /\ toolLast.h_raised)
    => /\ Len(toolLast.messages) = Len(toolLast.h_prior) + 1
       /\ SubSeq(toolLast.messages, 1, Len(toolLast.h_prior)) = toolLast.h_prior
       /\ LET last == toolLast.messages[Len(toolLast.messages)] IN
            /\ last.role = "assistant"
            /\ StartsWith(last.blocks[1], "I encountered an error")
            /\ \E e \in ExceptionTexts : Contains(e, last.blocks[1])

\* a specialist raised in the middle of a two-message conversation
C18_Witness ==
    /\ toolLast.tool = "invoke_agent"
    /\ toolLast.h_raised
    /\ Len(toolLast.h_prior) = 2
    /\ pc = "end"

(***************************************************************************)
(*   The CRM update tools called with a few of their optional fields       *)
(***************************************************************************)

\* the parameter sets the exploration supplies to each tool
UpdSupplied ==
    [update_contact |-> {{}, {"name", "phone"}},
     update_deal |-> {{}, {"stage"}},
     update_listing |-> {{}, {"status"}},
     update_task |-> {{}, {"status"}},
     update_note |-> {{}, {"content"}},
     update_calendar_event |-> {{}, {"location"}}]
UpdIds == {1, 2}

UpdUpdate ==
    /\ \E tool \in UpdateToolNames, id \in UpdIds :
          \E S \in UpdSupplied[tool] : UpdateRow(tool, id, [q \in S |-> "new"])
    /\ UNCHANGED <<rlVars, clockVars, keyVars, supVars, extVars>>

NextUpd ==
    \/ UpdUpdate

SpecUpd == Init /\ [][NextUpd]_vars

\* C19: the patch an update tool sends holds the column of every supplied
\* parameter with the supplied value, updated_at with the time of the call, and
\* nothing else, and is applied to the row whose id is the tool's id argument.
C19_SparsePatch ==
    toolLast.tool \in UpdateToolNames =>
        /\ DOMAIN toolLast.h_patch =
               {ColumnOf(toolLast.tool, q) : q \in DOMAIN toolLast.h_supplied}
                   \cup {"updated_at"}
        /\ \A q \in DOMAIN toolLast.h_supplied :
               toolLast.h_patch[ColumnOf(toolLast.tool, q)] = toolLast.h_supplied[q]
        /\ toolLast.success =>
               crm[toolLast.h_table][toolLast.h_id]["updated_at"] # NoExpiry

(***************************************************************************)
(*                 CONTACT MATCHING (supabase_tools.py, data_mapper.py)    *)
(***************************************************************************)

\* str.replace(ch, "") for every character of `chars`
RECURSIVE Strip(_, _)
Strip(s, chars) ==
    IF s = "" THEN ""
    ELSE (IF \E i \in 1..Len(chars) : SubSeq(chars, i, i) = SubSeq(s, 1, 1)
          THEN "" ELSE SubSeq(s, 1, 1)) \o Strip(SubSeq(s, 2, Len(s)), chars)

\* ilike(column, "%" + text + "%"): contains, whatever the case
ILike(value, text) == Contains(Lower(text), Lower(value))

\* the contacts rows that belong to user_id: .eq("owner", user_id)
UserContacts(user_id) ==
    {i \in DOMAIN crm["contacts"] : /\ "owner" \in DOMAIN crm["contacts"][i]
                                    /\ crm["contacts"][i]["owner"] = user_id}

Contact(i) == crm["contacts"][i]

\* the selected rows as the query returns them, in id order
ContactIds(ids) ==
    [k \in 1..Cardinality(ids) |->
        CHOOSE i \in ids : Cardinality({j \in ids : j < i}) = k - 1]

\* create_contact: inserts the row as given
CreateContact(user_id, name, email, phone) ==
    LET rows == crm["contacts"]
        id   == Cardinality(DOMAIN rows) + 1
    IN
    /\ crm' = [crm EXCEPT !["contacts"] =
                  [i \in DOMAIN rows \cup {id} |->
                      IF i = id THEN [owner |-> user_id, name |-> name,
                                      email |-> email, phone |-> phone]
                      ELSE rows[i]]]
    /\ toolLast' = [tool |-> "create_contact", user |-> user_id, flow_id |-> 0,
                    success |-> TRUE, error |-> "", contact_id |-> id]
    /\ UNCHANGED <<flows, nodes, edges, issues, creds, nextId, hValidated, hPlain>>

\* confidences are in hundredths
EmailConfidence == 95
NameConfidence  == 70
PhoneConfidence == 75
MatchLimit      == 5

\* seq[:n]
Take(seq, n) == IF Len(seq) <= n THEN seq ELSE SubSeq(seq, 1, n)

Matches(ids, confidence, match_type) ==
    [k \in 1..Len(ids) |->
        [contact |-> ids[k], confidence |-> confidence, match_type |-> match_type]]

\* fuzzy_match_contact; "" stands for an argument left out
FuzzyMatchContact(user_id, name, email, phone) ==
    LET by_email == IF email = "" THEN <<>>
                    ELSE Matches(ContactIds({i \in UserContacts(user_id) :
                                               Contact(i)["email"] = Lower(email)}),
                                 EmailConfidence, "email_exact")
        by_name  == IF name # "" /\ by_email = <<>>
                    THEN Matches(Take(ContactIds({i \in UserContacts(user_id) :
                                               ILike(Contact(i)["name"], name)}),
                                      MatchLimit),
                                 NameConfidence, "name_fuzzy")
                    ELSE <<>>
        phone_clean == Strip(phone, "- ()")
        by_phone == IF phone # "" /\ by_email \o by_name = <<>>
                    THEN Matches(Take(ContactIds({i \in UserContacts(user_id) :
                                               ILike(Contact(i)["phone"], phone_clean)}),
                                      MatchLimit),
                                 PhoneConfidence, "phone_fuzzy")
                    ELSE <<>>
        matches == by_email \o by_name \o by_phone
    IN
    /\ toolLast' = [tool |-> "fuzzy_match_contact", user |-> user_id, flow_id |-> 0,
                    success |-> TRUE, error |-> "",
                    matches |-> Take(matches, MatchLimit), count |-> Len(matches),
                    h_query |-> [name |-> name, email |-> email, phone |-> phone]]
    /\ UNCHANGED <<flows, nodes, edges, issues, creds, nextId, hValidated, hPlain, crm>>

\* calculate_match_confidence, in hundredths
BASE_CONFIDENCE ==
    [email_exact |-> 95, phone_exact |-> 90, name_exact |-> 85, email_fuzzy |-> 75,
     name_fuzzy |-> 70, phone_fuzzy |-> 70, semantic |-> 60]
DefaultConfidence == 50
FieldBoost == 5
ConfidenceCap == 100

Min(a, b) == IF a < b THEN a ELSE b

CalculateMatchConfidence(source_data, crm_entity, match_type) ==
    LET base == IF match_type \in DOMAIN BASE_CONFIDENCE
                THEN BASE_CONFIDENCE[match_type] ELSE DefaultConfidence
        email_same == /\ source_data.email # "" /\ crm_entity.email # ""
                      /\ Lower(source_data.email) = Lower(crm_entity.email)
        phone_same == /\ source_data.phone # "" /\ crm_entity.phone # ""
                      /\ Strip(source_data.phone, "- ") = Strip(crm_entity.phone, "- ")
        name_same  == /\ source_data.name # "" /\ crm_entity.name # ""
                      /\ \/ Contains(Lower(source_data.name), Lower(crm_entity.name))
                         \/ Contains(Lower(crm_entity.name), Lower(source_data.name))
        matches == (IF email_same THEN 1 ELSE 0) + (IF phone_same THEN 1 ELSE 0)
                      + (IF name_same THEN 1 ELSE 0)
    IN Min(base + matches * FieldBoost, ConfidenceCap)

\* ---- bounds and inputs of the exploration
FzMaxContacts == 2
FzUsers   == {"alice", "bob"}
FzNames   == {"Ann Lee", "Bob Ray"}
FzEmails  == {"ann@x.com", "Ann@X.com"}
FzPhones  == {"555-1234"}
FzQueries == {""} \cup {"bob"}
FzTypes   == {"email_exact", "name_fuzzy", "other"}

FzCreate ==
    /\ Cardinality(DOMAIN crm["contacts"]) < 1 + FzMaxContacts
    /\ \E n \in FzNames, e \in FzEmails, p \in FzPhones : CreateContact("alice", n, e, p)
    /\ UNCHANGED <<rlVars, clockVars, keyVars, supVars, extVars>>
FzMatch ==
    /\ \E u \in FzUsers, n \in FzQueries, e \in FzEmails \cup {""}, p \in FzPhones \cup {""} :
          FuzzyMatchContact(u, n, e, p)
    /\ UNCHANGED <<rlVars, clockVars, keyVars, supVars, extVars>>
FzScore ==
    /\ \E i \in DOMAIN crm["contacts"], n \in FzQueries, e \in FzEmails \cup {""},
          p \in FzPhones \cup {""}, t \in FzTypes :
          /\ "owner" \in DOMAIN crm["contacts"][i]
          /\ toolLast' = [tool |-> "calculate_match_confidence", user |-> "",
                          flow_id |-> 0, success |-> TRUE, error |-> "",
                          confidence |-> CalculateMatchConfidence(
                              [name |-> n, email |-> e, phone |-> p],
                              crm["contacts"][i], t)]
    /\ UNCHANGED <<flows, nodes, edges, issues, creds, nextId, hValidated, hPlain, crm>>
    /\ UNCHANGED <<rlVars, clockVars, keyVars, supVars, extVars>>

NextFz ==
    \/ FzCreate
    \/ FzMatch
    \/ FzScore

SpecFz == Init /\ [][NextFz]_vars

\* C20: when the email given to fuzzy_match_contact is the email of a contact of
\* the user, that contact is returned as an email_exact match of confidence 0.95
\* and no name or phone match is returned with it; a name match is returned only
\* without email matches and a phone match only without email and name matches;
\* no confidence, of fuzzy_match_contact or calculate_match_confidence, is above 1.0.
C20_EmailBeforeName ==
    /\ (toolLast.tool = "fuzzy_match_contact" /\ toolLast.success) =>
          LET q == toolLast.h_query
              ms == toolLast.matches
              Types == {ms[k].match_type : k \in 1..Len(ms)}
              same == ContactIds({i \in UserContacts(toolLast.user) :
                                     q.email # "" /\ Contact(i)["email"] = q.email})
          IN
          /\ \A k \in 1..Len(same) : k <= MatchLimit =>
                \E j \in 1..Len(ms) : /\ ms[j].contact = same[k]
                                      /\ ms[j].confidence = EmailConfidence
                                      /\ ms[j].match_type = "email_exact"
          /\ same # <<>> => Types = {"email_exact"}
          /\ Cardinality(Types) <= 1
          /\ \A j \in 1..Len(ms) : ms[j].confidence <= ConfidenceCap
    /\ toolLast.tool = "calculate_match_confidence" =>
          toolLast.confidence <= ConfidenceCap

(***************************************************************************)
(*   The lead-generation tools (tools_agent/utils/tools/lead_generation)   *)
(***************************************************************************)

ApiKeys == {"TAVILY_API_KEY", "FIRECRAWL_API_KEY", "SERP_API_KEY"}

\* get_tavily_client / get_firecrawl_client / get_serp_client: the ValueError
\* text when os.getenv gives nothing, "" when the client is returned
GetClient(key) ==
    IF key \in env THEN "" ELSE key \o " environment variable required"

\* the except branch: success false and the exception text; h_key is the
\* environment variable whose absence raised, "" for another exception
LeadFailed(tool, args, prefix, e, key) ==
    [tool |-> tool, success |-> FALSE, error |-> prefix \o e, sample |-> FALSE,
     count |-> 0, h_args |-> args, h_env |-> env, h_key |-> key]

\* the envelope of simulated data, with its "integration needed" note
LeadOk(tool, args, count) ==
    [tool |-> tool, success |-> TRUE, error |-> "", sample |-> TRUE,
     count |-> count, h_args |-> args, h_env |-> env, h_key |-> ""]

LeadUnchanged ==
    UNCHANGED <<flows, nodes, edges, issues, creds, nextId, hValidated, hPlain,
                rlVars, clockVars, keyVars, supVars, crmVars, extVars>>

\* the two listings of the simulated search response
SampleListings == <<"https://example-listing-site.com/property1",
                    "https://example-realty.com/listing2">>

\* search_commercial_listings: the client first, then asset_types[0] in the
\* simulated results, all inside one try
SearchCommercialListings(location, asset_types) ==
    /\ toolLast' =
         IF GetClient("TAVILY_API_KEY") # ""
         THEN LeadFailed("search_commercial_listings", <<location, asset_types>>,
                         "Failed to search commercial listings: ",
                         GetClient("TAVILY_API_KEY"), "TAVILY_API_KEY")
         ELSE IF asset_types = <<>>
         THEN LeadFailed("search_commercial_listings", <<location, asset_types>>,
                         "Failed to search commercial listings: ",
                         "list index out of range", "")
         ELSE LeadOk("search_commercial_listings", <<location, asset_types>>,
                     Len(SampleListings))
    /\ LeadUnchanged

\* scrape_listing_details
ScrapeListingDetails(listing_url, lead_type) ==
    /\ toolLast' =
         IF GetClient("FIRECRAWL_API_KEY") # ""
         THEN LeadFailed("scrape_listing_details", <<listing_url, lead_type>>,
                         "Failed to scrape listing details: ",
                         GetClient("FIRECRAWL_API_KEY"), "FIRECRAWL_API_KEY")
         ELSE LeadOk("scrape_listing_details", <<listing_url, lead_type>>, 1)
    /\ LeadUnchanged

\* budgets are in millions of dollars
BudgetFilter == 50
BaseProspects == <<"Metropolitan Investment Group", "Regional Property Partners",
                   "Capital Growth Ventures">>

\* find_investment_prospects: no client is asked for
FindInvestmentProspects(criteria) ==
    /\ toolLast' = LeadOk("find_investment_prospects", criteria,
                          IF criteria.budget_min <= BudgetFilter
                          THEN Len(BaseProspects) ELSE 0)
    /\ LeadUnchanged

\* enrich_lead_data: no client is asked for
EnrichLeadData(lead_data) ==
    /\ toolLast' = LeadOk("enrich_lead_data", lead_data, 1)
    /\ LeadUnchanged

LeadLocations  == {"Austin", "Dallas"}
LeadAssetTypes == {<<>>, <<"office">>, <<"retail", "office">>}
LeadUrls       == {"https://example-listing-site.com/property1",
                   "https://example-realty.com/listing2"}
LeadTypes      == {"property_owner", "broker"}
LeadBudgets    == {0, 60}
LeadNames      == {"Ann Lee", ""}

InitLead ==
    /\ RLInit
    /\ DbInit
    /\ envKey = "unset"
    /\ keyGen = 0
    /\ SupInit
    /\ env \in SUBSET ApiKeys
    /\ procs = <<>>

LeadSearch ==
    \E l \in LeadLocations, a \in LeadAssetTypes : SearchCommercialListings(l, a)
LeadScrape ==
    \E u \in LeadUrls, t \in LeadTypes : ScrapeListingDetails(u, t)
LeadFind ==
    \E l \in LeadLocations, b \in LeadBudgets :
        FindInvestmentProspects([location |-> l, budget_min |-> b])
LeadEnrich ==
    \E n \in LeadNames : EnrichLeadData([prospect_name |-> n])

NextLead ==
    \/ LeadSearch
    \/ LeadScrape
    \/ LeadFind
    \/ LeadEnrich

SpecLead == InitLead /\ [][NextLead]_vars

LeadTools == {"search_commercial_listings", "scrape_listing_details",
              "find_investment_prospects", "enrich_lead_data"}

\* C21: a lead-generation tool never fails for want of an API key: whichever
\* of the search, scraping and SERP keys the environment lacks, the call
\* returns the success-true envelope of sample data (a failure that has
\* another cause, such as an empty asset_types list, is left aside).
C21_SampleWithoutKeys ==
    (toolLast.tool \in LeadTools /\ toolLast.h_env # ApiKeys) =>
        \/ toolLast.success /\ toolLast.sample
        \/ ~toolLast.success /\ toolLast.h_key = ""

(***************************************************************************)
(*   Remote-tool discovery of the chat-copilot agent (tools_agent/agent.py)*)
(***************************************************************************)

\* the loop body over one page of list_tools: acc is
\* [fetched |-> tools appended so far, added |-> names_of_tools_added]
RECURSIVE TakePage(_, _, _)
TakePage(page, find, acc) ==
    IF page = <<>> THEN acc
    ELSE LET name == Head(page)
             take == \/ find = {}
                     \/ name \in find /\ name \notin acc.added
         IN TakePage(Tail(page), find,
                     IF take
                     THEN [fetched |-> Append(acc.fetched, name),
                           added   |-> IF find # {} THEN acc.added \cup {name}
                                       ELSE acc.added]
                     ELSE acc)

\* the while True loop: page i is the answer to list_tools(cursor); its
\* nextCursor is empty on the server's last page
RECURSIVE FetchPages(_, _, _, _)
FetchPages(pages, i, find, acc) ==
    IF i > Len(pages) \/ pages[i] = <<>> THEN acc.fetched
    ELSE LET after == TakePage(pages[i], find, acc) IN
         IF i = Len(pages) THEN after.fetched
         ELSE IF find # {} /\ Cardinality(after.added) = Cardinality(find)
         THEN after.fetched
         ELSE FetchPages(pages, i + 1, find, after)

\* the guard of the remote-tool block
McpEnabled(cfg, mcp_tokens) ==
    /\ cfg.url # ""
    /\ cfg.tools # {}
    /\ (mcp_tokens # "" \/ ~cfg.auth_required)

\* create_chat_copilot_agent, its remote tools only: `pages` is what the
\* server lists, `token` what fetch_tokens would give ("" for None), `raises`
\* whether the session raised before tools.extend
CreateChatCopilotAgent(cfg, pages, token, raises) ==
    LET mcp_tokens == IF cfg.auth_required THEN token ELSE ""
        attached == IF McpEnabled(cfg, mcp_tokens) /\ ~raises
                    THEN FetchPages(pages, 1, cfg.tools, [fetched |-> <<>>, added |-> {}])
                    ELSE <<>>
    IN
    /\ toolLast' = [tool |-> "create_chat_copilot_agent", success |-> TRUE,
                    remote_tools |-> attached,
                    h_cfg |-> cfg, h_pages |-> pages, h_token |-> token,
                    h_raised |-> McpEnabled(cfg, mcp_tokens) /\ raises]
    /\ UNCHANGED <<flows, nodes, edges, issues, creds, nextId, hValidated, hPlain,
                   rlVars, clockVars, keyVars, supVars, crmVars, extVars>>

McpNames    == {"search", "fetch"}
\* what a server lists, page by page: no tool at all, one page, two pages,
\* a name listed again on a later page, a name listed twice on one page
McpServers  ==
    { <<>>,
      << <<"search">> >>,
      << <<"search", "fetch">> >>,
      << <<"search">>, <<"fetch">> >>,
      << <<"fetch">>, <<"search", "fetch">> >>,
      << <<"search">>, <<"search">>, <<"fetch">> >>,
      << <<"fetch", "fetch">> >>,
      << <<"send">>, <<"search">> >> }
McpUrls     == {"https://mcp.example"}
McpTokens   == {"", "tok"}

McpCreate ==
    \E u \in McpUrls, allow \in SUBSET McpNames, a \in BOOLEAN,
       pages \in McpServers, t \in McpTokens, r \in BOOLEAN :
        CreateChatCopilotAgent([url |-> u, tools |-> allow, auth_required |-> a],
                               pages, t, r)

NextMcp ==
    \/ McpCreate

SpecMcp == Init /\ [][NextMcp]_vars

\* the names the server lists on any page
ServerNames(pages) ==
    UNION {{pages[i][k] : k \in 1..Len(pages[i])} : i \in 1..Len(pages)}

\* the server's tools, page after page
RECURSIVE AllListed(_)
AllListed(pages) ==
    IF pages = <<>> THEN <<>> ELSE Head(pages) \o AllListed(Tail(pages))

\* C22: with a server configured (and reached, with a token when one is
\* required), the remote tools attached are the server's tools named in the
\* allow-list, each once, and every tool the server lists when the allow-list
\* is empty.
C22_AllowListed ==
    (/\ toolLast.tool = "create_chat_copilot_agent"
     /\ toolLast.h_cfg.url # ""
     /\ ~toolLast.h_raised
     /\ (toolLast.h_cfg.auth_required => toolLast.h_token # ""))
    => LET got == toolLast.remote_tools
           allow == toolLast.h_cfg.tools
       IN IF allow = {}
          THEN got = AllListed(toolLast.h_pages)
          ELSE /\ {got[k] : k \in 1..Len(got)} = ServerNames(toolLast.h_pages) \cap allow
               /\ \A j, k \in 1..Len(got) : got[j] = got[k] => j = k

(***************************************************************************)
(*   review_om_quality (suitecrm_tools/om_bov/quality_review.py)           *)
(*   A content is represented by what the scorer reads from it:            *)
(*     terms  : the listed terms that occur in content.lower()             *)
(*     words  : len(content.split())                                       *)
(***************************************************************************)

VALUATION_TERMS      == {"cap rate", "NOI", "market value", "comparable", "valuation", "approach"}
REQUIRED_SECTIONS    == {"income approach", "sales comparison", "market analysis"}
INVESTMENT_TERMS     == {"investment", "opportunity", "cash flow", "returns", "strategic"}
FINANCIAL_INDICATORS == {"$", "NOI", "cap rate", "rental", "income", "expense", "price"}

ValuationNeeded  == 4
ValuationBonus   == 30
SectionsNeeded   == 2
SectionBonus     == 25
InvestmentNeeded == 4
InvestmentBonus  == 25
LengthThreshold  == 200
LengthBonus      == 20
FinancialNeeded  == 3
FinancialBonus   == 25
WordsPerPoint    == 10
WordBonusCap     == 20
ScoreCap         == 100

\* term.lower() for each term of a list
LowerAll(terms) == {Lower(t) : t \in terms}
ValuationLower  == LowerAll(VALUATION_TERMS)
SectionsLower   == LowerAll(REQUIRED_SECTIONS)
InvestmentLower == LowerAll(INVESTMENT_TERMS)
FinancialLower  == LowerAll(FINANCIAL_INDICATORS)

\* sum(1 for term in terms if term.lower() in content.lower())
Mentions(lowered, content) ==
    Cardinality({t \in lowered : t \in content.terms})

\* document_type.upper() == "BOV"
IsBov(document_type) == Lower(document_type) = "bov"

\* elif word_count > 200
LongEnough(word_count) == word_count > LengthThreshold

\* the reported score without its cap
Uncapped(quality_score) == quality_score
\* min(quality_score, 100)
Capped(quality_score) == Min(quality_score, ScoreCap)

\* quality_score as accumulated before the cap
QualityScore(content, document_type) ==
    LET typed == IF IsBov(document_type)
                 THEN (IF Mentions(ValuationLower, content) >= ValuationNeeded
                       THEN ValuationBonus ELSE 0)
                    + (IF Mentions(SectionsLower, content) >= SectionsNeeded
                       THEN SectionBonus ELSE 0)
                 ELSE (IF Mentions(InvestmentLower, content) >= InvestmentNeeded
                       THEN InvestmentBonus ELSE 0)
        length == IF LongEnough(content.words) THEN LengthBonus ELSE 0
        financial == IF Mentions(FinancialLower, content) >= FinancialNeeded
                     THEN FinancialBonus ELSE 0
    IN typed + length + financial + Min(WordBonusCap, content.words \div WordsPerPoint)

\* review_om_quality
ReviewOmQuality(content, document_type) ==
    /\ toolLast' = [tool |-> "review_om_quality", success |-> TRUE,
                    document_type |-> document_type,
                    quality_score |-> Capped(QualityScore(content, document_type)),
                    word_count |-> content.words,
                    h_content |-> content]
    /\ UNCHANGED <<flows, nodes, edges, issues, creds, nextId, hValidated, hPlain,
                   rlVars, clockVars, keyVars, supVars, crmVars, extVars>>

\* the listed terms of the explored contents, lower-cased as they occur
OmInvestment == {{}, {"investment", "opportunity", "returns"},
                 {"investment", "opportunity", "cash flow", "returns"}}
OmFinancial  == {{}, {"$", "price"}, {"$", "price", "rental"}}
OmValuation  == {{}, {"cap rate", "noi", "market value", "valuation",
                      "income approach", "income", "approach", "sales comparison"}}
OmWords      == {0, 50, 150, 200, 201, 250}
OmDocTypes   == {"OM", "BOV", "bov"}

OmReview ==
    \E i \in OmInvestment, f \in OmFinancial, v \in OmValuation,
       w \in OmWords, d \in OmDocTypes :
        /\ w >= 2 * Cardinality(i \cup f \cup v)
        /\ ReviewOmQuality([terms |-> i \cup f \cup v, words |-> w], d)

NextOm ==
    \/ OmReview

SpecOm == Init /\ [][NextOm]_vars

\* the case C23 is about: OM content with 4 investment terms and 3 financial
\* indicators
OmCase ==
    /\ toolLast.tool = "review_om_quality"
    /\ ~IsBov(toolLast.document_type)
    /\ Mentions(InvestmentLower, toolLast.h_content) = 4
    /\ Mentions(FinancialLower, toolLast.h_content) = 3

\* C23 as stated: for OM content with 4 investment terms, 3 financial
\* indicators and at least 200 words the score is
\* 25 + 20 + 25 + min(20, words // 10), and no reported score is above 100.
C23_FixedBonuses ==
    /\ toolLast.tool = "review_om_quality" => toolLast.quality_score <= 100
    /\ (OmCase /\ toolLast.h_content.words >= 200)
       => toolLast.quality_score = 25 + 20 + 25 + Min(20, toolLast.h_content.words \div 10)

\* C23 amended: the same for OM content of more than 200 words.
C23_FixedBonusesAbove200 ==
    /\ toolLast.tool = "review_om_quality" => toolLast.quality_score <= 100
    /\ (OmCase /\ toolLast.h_content.words > 200)
       => toolLast.quality_score = 25 + 20 + 25 + Min(20, toolLast.h_content.words \div 10)

\* an OM content of 250 words with 4 investment terms and 3 financial
\* indicators was scored 90
C23_Witness ==
    /\ OmCase
    /\ toolLast.h_content.words = 250
    /\ toolLast.quality_score = 90

(***************************************************************************)
(*   Validation followed by activation through update_workflow_flow        *)
(***************************************************************************)

ActMaxFlows  == 1
ActMaxNodes  == 2
ActFlowIds   == 1..ActMaxFlows
ActNodeTypes == {"gmail_trigger", "tasks_action"}
ActStatuses  == {"active", "paused"}

ActCreateFlow ==
    /\ Len(flows) < ActMaxFlows
    /\ CreateWorkflowFlow("alice")
    /\ OtherUnchanged
ActCreateNode ==
    /\ nextId.node <= ActMaxNodes
    /\ \E f \in ActFlowIds, t \in ActNodeTypes : CreateWorkflowNode(f, t, {}, "alice")
    /\ OtherUnchanged
ActStoreCredential ==
    /\ StoreCredential("alice", "google", "ya29.tok", "a@x.com", NoArg)
    /\ UNCHANGED <<envKey, crmVars, extVars, rlVars, clockVars, supVars>>
ActValidate ==
    /\ \E f \in ActFlowIds : ValidateWorkflow(f, "alice")
    /\ OtherUnchanged
ActUpdateFlow ==
    /\ \E f \in ActFlowIds, x \in ActStatuses : UpdateWorkflowFlow(f, "alice", x)
    /\ OtherUnchanged

NextAct ==
    \/ ActCreateFlow
    \/ ActCreateNode
    \/ ActStoreCredential
    \/ ActValidate
    \/ ActUpdateFlow

SpecAct == InitVal /\ [][NextAct]_vars

\* the most recent validation of the flow found an error-severity issue
BlockedByErrors(f) ==
    /\ f \in DOMAIN hValidated
    /\ hValidated[f].done
    /\ CountSeverity(hValidated[f].issues, "error") > 0

\* C24: no step moves to status active a flow whose most recent validation
\* found error-severity issues (can_activate false).
C24_ErrorsBlockActivation ==
    [][\A f \in DOMAIN flows :
          (BlockedByErrors(f) /\ flows[f].status # "active")
          => flows'[f].status # "active"]_vars

(***************************************************************************)
(*   Concurrent check_and_increment calls on one key.  A call is suspended  *)
(*   at each await on Redis: after INCR, after EXPIRE, after TTL.          *)
(***************************************************************************)

RaceMaxCalls == 4
RaceLimit    == 2       \* the custom_limit every call is made with
RaceKey      == <<"alice", "db_writes">>
RaceWindow   == WindowSeconds("db_writes", NoArg)

\* where a call goes after its INCR, or after its EXPIRE, returned `current`
AfterIncr(current, expired) ==
    IF current = 1 /\ ~expired THEN "expire"
    ELSE IF Exceeded(current, EffectiveLimit("db_writes", RaceLimit)) THEN "ttl"
    ELSE "returned"

\* the keys created so far: the calls whose INCR returned 1
KeysCreated == Cardinality({p \in DOMAIN procs : procs[p].current = 1})

RaceDbUnchanged == UNCHANGED <<dbVars, keyVars, crmVars, supVars, clockVars,
                               rlLast, hWinStart, hWinLen, hCalls, env>>

\* a new call: await redis.incr(key)
RaceIncr ==
    /\ Len(procs) < RaceMaxCalls
    /\ LET current == rlCount[RaceKey] + 1 IN
        /\ rlCount' = [rlCount EXCEPT ![RaceKey] = current]
        /\ procs' = Append(procs, [pc |-> AfterIncr(current, FALSE),
                                   current |-> current,
                                   key |-> KeysCreated + (IF current = 1 THEN 1 ELSE 0),
                                   ttl |-> 0])
    /\ UNCHANGED rlExpire
    /\ RaceDbUnchanged

\* await redis.expire(key, window_seconds), by the call whose INCR returned 1
RaceExpire ==
    \E p \in DOMAIN procs :
        /\ procs[p].pc = "expire"
        /\ rlExpire' = IF rlCount[RaceKey] = 0 THEN rlExpire
                       ELSE [rlExpire EXCEPT ![RaceKey] = now + RaceWindow]
        /\ procs' = [procs EXCEPT ![p].pc = AfterIncr(procs[p].current, TRUE)]
        /\ UNCHANGED rlCount
        /\ RaceDbUnchanged

\* await redis.ttl(key), then raise RateLimitExceeded
RaceTtl ==
    \E p \in DOMAIN procs :
        /\ procs[p].pc = "ttl"
        /\ procs' = [procs EXCEPT ![p].pc = "raised",
                                  ![p].ttl = RedisTtl(rlCount, rlExpire, RaceKey)]
        /\ UNCHANGED <<rlCount, rlExpire>>
        /\ RaceDbUnchanged

NextRace ==
    \/ RaceIncr
    \/ RaceExpire
    \/ RaceTtl
    \/ Tick

SpecRace == Init /\ [][NextRace]_vars

\* the calls whose INCR fell in the life of the w-th key
CallsOfKey(w) == {p \in DOMAIN procs : procs[p].key = w}

\* C25: of the calls made on one key within one window, at most `limit`
\* return; every call has returned or raised once it is over, and those beyond
\* the limit raise, whatever the interleaving.
C25_AtMostLimitReturn ==
    \A w \in 1..RaceMaxCalls :
        LET calls    == CallsOfKey(w)
            returned == {p \in calls : procs[p].pc = "returned"}
            raised   == {p \in calls : procs[p].pc = "raised"}
        IN /\ Cardinality(returned) <= RaceLimit
           /\ calls = returned \cup raised
              => Cardinality(raised) = Max(0, Cardinality(calls) - RaceLimit)

\* four calls on one key are over: two returned and two raised, one of them
\* before the first call had set the expiry
C25_Witness ==
    /\ Cardinality(CallsOfKey(1)) = 4
    /\ \A p \in DOMAIN procs : procs[p].pc \in {"returned", "raised"}
    /\ Cardinality({p \in DOMAIN procs : procs[p].pc = "returned"}) = 2
    /\ \E p \in DOMAIN procs : procs[p].pc = "raised" /\ procs[p].ttl = -1

(***************************************************************************)
(*   Concurrent store_credential calls.  A call is two requests to the     *)
(*   backend: the select of the matching row, then the update or insert.   *)
(***************************************************************************)

UpsMaxCalls == 3
UpsTokens   == {"ya29.one", "ya29.two"}
UpsAccounts == {"a@x.com"}

\* the rows of the triple, as the select returns them (id order)
Matching(user_id, provider, account_identifier) ==
    {c \in creds : /\ c.owner = user_id
                   /\ c.provider = provider
                   /\ c.account = account_identifier}

\* existing.data[0]["id"], 0 when the select found nothing
ExistingId(rows) ==
    IF rows = {} THEN 0
    ELSE (CHOOSE c \in rows : \A d \in rows : c.id <= d.id).id

UpsOther == UNCHANGED <<flows, nodes, edges, issues, hValidated, toolLast,
                        rlVars, clockVars, keyVars, supVars, crmVars, env>>

\* a call starts: encrypt_token, then the select
UpsSelect ==
    /\ Len(procs) < UpsMaxCalls
    /\ \E token \in UpsTokens, account \in UpsAccounts :
          procs' = Append(procs,
                     [pc |-> "write", user |-> "alice", provider |-> "google",
                      account |-> account, token |-> token,
                      existing |-> ExistingId(Matching("alice", "google", account)),
                      finished |-> 0])
    /\ UNCHANGED <<creds, nextId, hPlain>>
    /\ UpsOther

\* the number of calls that have returned
Finished == Cardinality({p \in DOMAIN procs : procs[p].pc = "done"})

\* the call goes on: update the row it found, or insert a new one
UpsWrite ==
    \E p \in DOMAIN procs :
        LET c == procs[p]
            encrypted_token == EncryptToken(c.token, keyGen)
        IN
        /\ c.pc = "write"
        /\ IF c.existing # 0
           THEN /\ creds' = {IF r.id = c.existing
                             THEN [r EXCEPT !.token = encrypted_token,
                                            !.expires_at = NoExpiry]
                             ELSE r : r \in creds}
                /\ hPlain' = [hPlain EXCEPT ![c.existing] = c.token]
                /\ UNCHANGED nextId
           ELSE /\ creds' = creds \cup
                      {[id |-> nextId.cred, owner |-> c.user, provider |-> c.provider,
                        account |-> c.account, token |-> encrypted_token,
                        expires_at |-> NoExpiry, last_used_at |-> NoExpiry]}
                /\ hPlain' = Append(hPlain, c.token)
                /\ nextId' = [nextId EXCEPT !.cred = @ + 1]
        /\ procs' = [procs EXCEPT ![p].pc = "done", ![p].finished = Finished + 1]
        /\ UpsOther

NextUps ==
    \/ UpsSelect
    \/ UpsWrite

SpecUps == InitVal /\ [][NextUps]_vars

\* C26: whatever the interleaving of store_credential calls, the store holds
\* at most one row per (owner, provider, account_identifier), and that row
\* carries the token of the call for the triple that completed last.
C26_OneRowPerTriple ==
    \A account \in UpsAccounts :
        LET rows == Matching("alice", "google", account)
            done == {p \in DOMAIN procs : procs[p].pc = "done" /\ procs[p].account = account}
        IN /\ Cardinality(rows) <= 1
           /\ done # {} =>
                LET last == CHOOSE p \in done : \A q \in done :
                                procs[q].finished <= procs[p].finished
                IN \A r \in rows : r.token.data = procs[last].token

(***************************************************************************)
(*   The stored graph after node and edge tool calls (SpecOwn)             *)
(***************************************************************************)

\* the node id names a node of the flow
NodeOfFlow(node_id, flow_id) ==
    \E n \in nodes : n.id = node_id /\ n.flow_id = flow_id

\* C27: every stored edge starts and ends at an existing node of its own flow.
C27_EdgesHaveEndpoints ==
    \A e \in edges : /\ NodeOfFlow(e.from_node, e.flow_id)
                     /\ NodeOfFlow(e.to_node, e.flow_id)

(***************************************************************************)
(*   The supervisor graph invoked without messages (SpecSup)               *)
(***************************************************************************)

\* C28: an invocation that started with an empty message list ends right after
\* the supervisor's greeting: once past the conditional edge the run is at
\* END, no specialist has run and the greeting is the only message.
C28_EmptyEndsWithGreeting ==
    (st0.messages = <<>> /\ pc \notin {"idle", "supervisor", "route"})
    => /\ pc = "end"
       /\ ran = <<>>
       /\ st.messages = <<Msg("assistant", Greeting)>>

\* ---------------------------------------------------------------------------
\* build_execution_order as a function of the node and edge lists
\* (validation_tools.py 481-516)

TopoMaxEdges == 3
TopoNodeIds == {1, 2, 3}

\* the edges that can join two different nodes of the flow
TopoPairs == {p \in TopoNodeIds \X TopoNodeIds : p[1] # p[2]}

\* edge lists in the order the rows were inserted, no edge repeated
TopoEdgeLists ==
    UNION {{q \in [1..n -> TopoPairs] : \A i, j \in 1..n : i # j => q[i] # q[j]}
           : n \in 0..TopoMaxEdges}

TopoNodes == {[id |-> i] : i \in TopoNodeIds}

TopoEdges(q) ==
    {[id |-> i, from_node |-> q[i][1], to_node |-> q[i][2]] : i \in 1..Len(q)}

\* one call of build_execution_order on the nodes of a flow, its edges and one
\* of its nodes as the start
TopoBuild ==
    \E q \in TopoEdgeLists, start_node_id \in TopoNodeIds :
        /\ toolLast' = [tool |-> "build_execution_order",
                        execution_order |->
                            BuildExecutionOrder(TopoNodes, TopoEdges(q), start_node_id),
                        h_edges |-> TopoEdges(q),
                        h_start |-> start_node_id]
        /\ UNCHANGED <<clockVars, rlVars, flows, nodes, edges, issues, creds,
                       nextId, hValidated, hPlain, keyVars, supVars, crmVars,
                       extVars>>

NextTopo == TopoBuild

SpecTopo == Init /\ [][NextTopo]_vars

\* the nodes that `from` reaches along at most k edges
RECURSIVE TopoReach(_, _, _)
TopoReach(es, from, k) ==
    IF k = 0 THEN {from}
    ELSE LET near == TopoReach(es, from, k - 1)
         IN near \cup {e.to_node : e \in {x \in es : x.from_node \in near}}

TopoReachable(es, from) == TopoReach(es, from, Cardinality(TopoNodeIds))

\* no node reaches itself along one edge or more
TopoAcyclic(es) ==
    \A e \in es : e.from_node \notin TopoReachable(es, e.to_node)

TopoPos(order, n) == CHOOSE i \in 1..Len(order) : order[i] = n

\* C29: build_execution_order returns every node reachable from the start node
\* exactly once, and in an acyclic flow every node comes after all of its
\* predecessors that are reachable from the start node.
C29_TopologicalOrder ==
    toolLast.tool = "build_execution_order"
    => LET order == toolLast.execution_order
           es == toolLast.h_edges
           reach == TopoReachable(es, toolLast.h_start)
       IN /\ {order[i] : i \in 1..Len(order)} = reach
          /\ Len(order) = Cardinality(reach)
          /\ TopoAcyclic(es)
             => \A e \in es :
                    e.from_node \in reach
                    => TopoPos(order, e.from_node) < TopoPos(order, e.to_node)

\* ---------------------------------------------------------------------------
\* the example requests of SUPERVISOR_PROMPT (constants.py 267-294) sent
\* through the supervisor graph

\* ROUTING LOGIC: the requests listed under each agent
ROUTING_LOGIC ==
    [builder |->
        {"Create a workflow that...", "Build an automation for...",
         "Set up a trigger when...", "Add a step to...",
         "Edit my workflow to..."},
     validator |->
        {"Check if my workflow is ready", "Validate this automation",
         "Why can't I activate...", "Find errors in...", "Test my workflow"},
     explainer |->
        {"Why didn't my workflow run?", "What happened in run #...",
         "Explain why step X failed", "Show me the logs for...",
         "Why was this skipped?"},
     data_mapper |->
        {"Map these email fields to...",
         "Which contact does this email belong to?",
         "Find the listing for '123 Main St'", "Match this data to CRM"}]

PromptExamples == UNION {ROUTING_LOGIC[a] : a \in Specialists}

\* a new conversation whose one message is an example request, as a string or
\* as a list holding one text block; no routing hint
PromptInvoke ==
    /\ \E t \in PromptExamples :
         \E m \in {Msg("user", t), MsgBlocks("user", <<t>>)} :
           Invoke(<<m>>, "", <<>>)
    /\ UNCHANGED <<rlVars, clockVars, dbVars, keyVars, crmVars, extVars>>

NextPrompt ==
    \/ PromptInvoke
    \/ SupSupervisor
    \/ SupRoute
    \/ SupBuilder
    \/ SupValidator
    \/ SupExplainer
    \/ SupDataMapper

SpecPrompt == Init /\ [][NextPrompt]_vars

\* C30: every example request listed under an agent in SUPERVISOR_PROMPT's
\* routing logic is routed to that agent: the specialist node the graph enters
\* for it is the agent it is listed under.
C30_ExamplesRouted ==
    \A a \in Specialists :
        (pc \in Specialists /\ LastText0 \in ROUTING_LOGIC[a]) => pc = a

====
